---- MODULE Spec2Model ----
(***************************************************************************)
(* Flow monitoring system: the rolling sample buffer, the serial ingestion *)
(* thread and the connection handling of FlowMonitor                       *)
(* (flow_monitor_gui.py) and of CrossPlatformFlowMonitor                   *)
(* (src/core/cross_platform_flow_monitor.py).                              *)
(*                                                                         *)
(* One behaviour runs one of the two programs (variable program).  Python  *)
(* floats are fixed-point integers with FP units per 1.0.  A received line *)
(* is the sequence of its comma-separated fields, each field a string.     *)
(***************************************************************************)
EXTENDS Integers, Sequences, FiniteSets, TLC

\* ------------------------------------------------------------------ bounds
\* MAX_POINTS is 500 in both programs; the model runs a smaller capacity.
MAX_POINTS == 3
\* Lines the device sends in one behaviour of the buffer specification.
MaxLines == 4
\* Lines the device sends in one behaviour of the connection specification.
ConnMaxLines == 2
\* Serial() calls (handles ever created) in one behaviour.
MaxOpens == 3
\* Ingestion threads ever created in one behaviour.
MaxThreads == 3
\* Wall-clock seconds a behaviour covers.
MaxTime == 20
\* Lines a device sends in the parsing / export runs.
ParseMaxLines == 2
\* Export requests in one run.
MaxExports == 1
\* Lines a device sends in the runs about buffered samples surviving events.
LossMaxLines == 1
\* Serial ports on the machine.
MaxPorts == 3
SimpleMaxLines == 3

\* -------------------------------------------------------- program constants
DATA_TIMEOUT_SECONDS == 5
RECONNECT_AFTER_SECONDS == 15
RECONNECT_BACKOFF_SECONDS == 5
SETTLE_SECONDS == 2
max_consecutive_errors == 5

FlowMonitor == "FlowMonitor"
CrossPlatformFlowMonitor == "CrossPlatformFlowMonitor"
Programs == {FlowMonitor, CrossPlatformFlowMonitor}

\* Python's None, for the optional numbers and handles of the programs.
None == -1
\* The UI (main) thread, as a holder of thread_lock; ingestion threads are 1, 2, ...
UI == 0
DEFAULT_SENSOR_STATUS == "NO DATA"

\* ------------------------------------------------------------ line parsing
\* Fixed-point units per 1.0 of a Python float.
FP == 10000

\* float(s) for the field texts the model's devices send; a text outside the
\* table raises ValueError.
FloatTab ==
    ("1000" :> 1000 * FP) @@ ("2000" :> 2000 * FP) @@ ("3000" :> 3000 * FP)
    @@ ("0.0" :> 0) @@ ("1.0" :> FP) @@ ("1.5" :> 15000) @@ ("-2.0" :> -20000)
    @@ ("0.0005" :> 5) @@ ("0.001" :> 10) @@ ("3" :> 3 * FP)
    @@ ("20.0" :> 20 * FP) @@ ("30.0" :> 30 * FP) @@ ("50.0" :> 50 * FP)
    @@ ("60.0" :> 60 * FP)

IsFloat(s) == s \in DOMAIN FloatTab
ToFloat(s) == FloatTab[s]

\* int(s) for the pulse-count fields.
IntTab == ("0" :> 0) @@ ("3" :> 3) @@ ("1000" :> 1000) @@ ("2000" :> 2000)
          @@ ("3000" :> 3000)

IsInt(s) == s \in DOMAIN IntTab
ToInt(s) == IntTab[s]

\* str.strip() of a status field.
StripTab == (" OK " :> "OK") @@ (" " :> "") @@ ("OK " :> "OK")

Strip(s) == IF s \in DOMAIN StripTab THEN StripTab[s] ELSE s

\* bytes.decode("utf-8", errors="ignore"): the bytes that are no UTF-8 are
\* dropped and the rest is kept.  The cells of the model's lines that hold
\* such a byte (written \xff), with what is left of them.
DecodeTab == [c \in {"10\\xff00"} |-> "1000"]

HasBadBytes(line) == \E i \in 1..Len(line) : line[i] \in DOMAIN DecodeTab

decode(line) ==
    [i \in 1..Len(line) |->
        IF line[i] \in DOMAIN DecodeTab THEN DecodeTab[line[i]] ELSE line[i]]

\* The prefixes that mark a banner line.
SkipPrefixesFM == {"===", "Time", "CSV"}
SkipPrefixesCP ==
    {"===", "Time", "CSV", "Arduino", "Initializing", "System", "Starting", "---"}

\* line.startswith(prefixes): the model's banner lines begin with a field that
\* is the prefix itself.
StartsWith(line, prefixes) == Len(line) > 0 /\ line[1] \in prefixes

\* The filter of the read loop: non-empty, holds a comma, no banner prefix.
IsDataLineFM(line) ==
    /\ Len(line) >= 2
    /\ ~StartsWith(line, SkipPrefixesFM)

is_valid_data_line(line) ==
    /\ Len(line) >= 2
    /\ ~StartsWith(line, SkipPrefixesCP)

\* The conversions of the try block succeed (no ValueError).
ConversionsOk(parts) ==
    /\ IsFloat(parts[1]) /\ IsFloat(parts[2]) /\ IsFloat(parts[3])
    /\ (Len(parts) > 4 => IsInt(parts[5]))
    /\ (Len(parts) > 5 => IsInt(parts[6]))

\* The timestamp left in milliseconds.
ToSeconds_Identity(timestamp_ms) == timestamp_ms

\* timestamp_ms / 1000.0
ToSeconds(timestamp_ms) == timestamp_ms \div 1000

\* The values _parse_data_line computes from an accepted line.
ReadingOf(parts, defaultStatus) ==
    [ timestamp     |-> ToSeconds(ToFloat(parts[1])),
      flow_rate     |-> ToFloat(parts[2]),
      total_volume  |-> ToFloat(parts[3]),
      status        |-> IF Strip(parts[4]) = "" THEN defaultStatus
                        ELSE Strip(parts[4]),
      current_pulses |-> IF Len(parts) > 4 THEN ToInt(parts[5]) ELSE 0,
      total_pulses  |-> IF Len(parts) > 5 THEN ToInt(parts[6]) ELSE 0 ]

\* Acceptance without the range check on the flow rate.
AcceptsFM_NoRangeCheck(parts) ==
    /\ Len(parts) >= 4
    /\ ConversionsOk(parts)

\* FlowMonitor._parse_data_line accepts: enough fields, conversions succeed,
\* flow rate not negative.
AcceptsFM(parts) ==
    /\ Len(parts) >= 4
    /\ ConversionsOk(parts)
    /\ ~(ToFloat(parts[2]) < 0)

\* CrossPlatformFlowMonitor.parse_data_line accepts: enough fields and
\* conversions succeed (it has no range check).
AcceptsCP(parts) ==
    /\ Len(parts) >= 4
    /\ ConversionsOk(parts)

\* FLOW_MAX_REASONABLE = 50.0, the module's validation threshold (L/min).
FLOW_MAX_REASONABLE == 50 * FP

\* The number _parse_data_line compares the flow rate with: 20.0.
HighFlowLimit == 20 * FP

\* _parse_data_line logs the "Very high flow rate" warning for the line: it
\* got past the conversions and the negative test, and flow_rate > 20.0.
WarnsHighFlow(parts) ==
    /\ AcceptsFM(parts)
    /\ ToFloat(parts[2]) > HighFlowLimit

\* A handler that catches IndexError only.
CaughtFM_IndexOnly == {"IndexError"}

\* except (ValueError, IndexError): the exceptions _parse_data_line handles.
CaughtFM == {"ValueError", "IndexError"}

\* How _parse_data_line ends for a split line: "accepted", "rejected" (an
\* early return or a handled exception), or "raised" when the ValueError of a
\* failed conversion is not handled and leaves the method.
ParseOutcomeFM(parts) ==
    IF Len(parts) < 4 THEN "rejected"
    ELSE IF ~ConversionsOk(parts)
         THEN IF "ValueError" \in CaughtFM THEN "rejected" ELSE "raised"
    ELSE IF ToFloat(parts[2]) < 0 THEN "rejected"
    ELSE "accepted"

\* How parse_data_line of CrossPlatformFlowMonitor ends.
ParseOutcomeCP(parts) == IF AcceptsCP(parts) THEN "accepted" ELSE "rejected"

\* The lines the model's devices send.
LineWaiting == <<"1000", "0.0", "0.0", "WAITING">>
LineConnected == <<"2000", "1.5", "0.0005", "CONNECTED", "3", "3">>
LineBadTimestamp == <<"abc", "1.0", "0.0", "OK">>
LineNegative == <<"1000", "-2.0", "0.0", "OK">>
LineBanner == <<"===", "Flow Sensor Ready">>

LineNoSeparator == <<"hello">>
LineShort == <<"1000", "1.5", "0.0">>
LineBadFlow == <<"1000", "abc", "0.0", "OK">>
LineBadVolume == <<"1000", "1.0", "abc", "OK">>
LineBadPulse == <<"2000", "1.5", "0.0005", "CONNECTED", "1.5", "3">>
LineBadTotal == <<"2000", "1.5", "0.0005", "CONNECTED", "3", "abc">>
LinePadded == <<"3000", "1.0", "0.001", " OK ">>
LineBlankStatus == <<"3000", "1.0", "0.001", " ">>
LineFive == <<"3000", "1.0", "0.001", "OK", "3">>
\* "1000,0.0,0.0,WAITING" with a byte 0xFF received inside the timestamp
LineBadBytes == <<"10\\xff00", "0.0", "0.0", "WAITING">>

\* Lines with flow rates at and around 20 and 50 L/min.
LineFlow20 == <<"1000", "20.0", "0.0", "OK">>
LineFlow30 == <<"1000", "30.0", "0.0", "OK">>
LineFlow50 == <<"1000", "50.0", "0.0", "OK">>
LineFlow60 == <<"1000", "60.0", "0.0", "OK">>

BufLines == {LineWaiting, LineConnected, LineBadTimestamp}
ConnLines == {LineWaiting, LineBanner}
ParseLines ==
    {LineWaiting, LineConnected, LineBadTimestamp, LineNegative, LineBanner,
     LineNoSeparator, LineShort, LineBadFlow, LineBadVolume, LineBadPulse,
     LineBadTotal, LinePadded, LineBlankStatus, LineFive, LineBadBytes}

\* ----------------------------------------------------------------- state
VARIABLES
    program,                \* which of the two programs this behaviour runs
    \* the rolling buffer (deque(maxlen=MAX_POINTS) each) and the statistics
    timestamps, flow_rates, total_volumes, status_history,
    total_data_points,      \* data_count in CrossPlatformFlowMonitor
    max_flow_rate, is_recording,
    sensor_status, latest_flow_rate, latest_total_volume,
    start_time,             \* CrossPlatformFlowMonitor: first timestamp, or None
    thread_lock,            \* None: free; UI or a thread id: the holder
    \* the connection session
    serial_connection,      \* None, or the handle it refers to
    open_handles,           \* the handles whose is_open is true
    opens,                  \* handles created so far (Serial() calls)
    is_connected, is_running,
    last_data_timestamp, last_reconnect_attempt,
    now,                    \* time.time(), in seconds
    \* the ingestion threads
    data_thread,            \* the latest Thread object (serial_thread), or None
    nthreads,               \* threads created so far
    th_pc, th_line, th_errors,
    th_raw,                 \* per thread: the line as readline() returned it
    th_raised,              \* per thread, FlowMonitor: reads that raised in a row
                            \* in the running loop
    \* the UI thread
    ui_pc, ui_now, snap_times, snap_flows, snap_volumes,
    animation,              \* the FuncAnimation timer is running
    data_status,            \* the data status on display
    after_queue,            \* pending root.after(0, handle_connection_lost)
    \* history (not program state)
    pushed,                 \* the readings pushed since construction / reset
    lines_sent,             \* lines the device has sent
    lost_signals,           \* per thread: connection-lost signals it raised
    lost_pending,           \* a thread stopped on transport errors, no reopen yet
    reopens,                \* reopen attempts made without a connect request
    user_disconnected,      \* explicit disconnect, no connect request since
    connected_at,           \* when the session last became Connected, or None
    last_accept,            \* when a reading was last accepted, or None
    device_failed,          \* a read on an open handle has raised
    parsed,                 \* the lines read so far, each with its outcome
    \* the export
    export_report,          \* the message box of the last export, or "none"
    export_file,            \* the lines of the file last written
    exports,                \* exports requested so far
    \* the choice of the device
    comports,               \* serial.tools.list_ports.comports(), in its order
    port,                   \* the device chosen, or None
    port_prompted,          \* the user was asked to choose among the candidates
    port_by                 \* the routine that made the choice, or "none"

bufvars == <<timestamps, flow_rates, total_volumes, status_history,
             total_data_points, max_flow_rate>>
healthvars == <<sensor_status, latest_flow_rate, latest_total_volume,
                last_data_timestamp>>
connvars == <<serial_connection, open_handles, opens, is_connected, is_running,
              last_reconnect_attempt>>
threadvars == <<data_thread, nthreads, th_pc, th_line, th_errors, th_raw,
                th_raised>>
uivars == <<ui_pc, ui_now, snap_times, snap_flows, snap_volumes, data_status,
            animation>>
histvars == <<lost_signals, lost_pending, reopens, user_disconnected>>
ghostvars == <<connected_at, last_accept, device_failed, parsed>>
exportvars == <<export_report, export_file, exports>>
portvars == <<comports, port, port_prompted, port_by>>

vars == <<program, portvars, exportvars, bufvars, healthvars, connvars, threadvars, uivars, histvars,
          ghostvars,
          is_recording, start_time, thread_lock, now, after_queue, pushed,
          lines_sent>>

Threads == 1..MaxThreads

\* A deque without maxlen: nothing is ever evicted.
Append_deque_Unbounded(d, x) == Append(d, x)

\* deque(maxlen=MAX_POINTS).append(x): when full, the oldest element goes.
Append_deque(d, x) ==
    IF Len(d) >= MAX_POINTS THEN Append(Tail(d), x) ELSE Append(d, x)

\* A value Python takes as true in a condition (None and 0.0 are false).
Truthy(x) == x /= None /\ x /= 0

\* The sample _reset_data_internal puts in the cleared buffer.
ZeroSample ==
    [timestamp |-> 0, flow_rate |-> 0, total_volume |-> 0,
     status |-> DEFAULT_SENSOR_STATUS]

\* --------------------------------------------------------------- Init
\* FlowMonitor.__init__ (with the connect and thread start it ends with, the
\* only case in which run() goes on) / CrossPlatformFlowMonitor.__init__.
Init ==
    /\ program \in Programs
    /\ timestamps = IF program = FlowMonitor THEN <<0>> ELSE <<>>
    /\ flow_rates = IF program = FlowMonitor THEN <<0>> ELSE <<>>
    /\ total_volumes = IF program = FlowMonitor THEN <<0>> ELSE <<>>
    /\ status_history =
           IF program = FlowMonitor THEN <<DEFAULT_SENSOR_STATUS>> ELSE <<>>
    /\ total_data_points = 0
    /\ max_flow_rate = 0
    /\ is_recording = TRUE
    /\ sensor_status = DEFAULT_SENSOR_STATUS
    /\ latest_flow_rate = 0
    /\ latest_total_volume = 0
    /\ start_time = None
    /\ thread_lock = None
    /\ serial_connection = IF program = FlowMonitor THEN 1 ELSE None
    /\ open_handles = IF program = FlowMonitor THEN {1} ELSE {}
    /\ opens = IF program = FlowMonitor THEN 1 ELSE 0
    /\ is_connected = (program = FlowMonitor)
    /\ is_running = TRUE
    /\ last_data_timestamp = None
    /\ last_reconnect_attempt = None
    /\ now = 1
    /\ data_thread = IF program = FlowMonitor THEN 1 ELSE None
    /\ nthreads = IF program = FlowMonitor THEN 1 ELSE 0
    /\ th_pc = [t \in Threads |->
                   IF program = FlowMonitor /\ t = 1 THEN "while" ELSE "new"]
    /\ th_line = [t \in Threads |-> <<>>]
    /\ th_raw = [t \in Threads |-> <<>>]
    /\ th_errors = [t \in Threads |-> 0]
    /\ th_raised = [t \in Threads |-> 0]
    /\ ui_pc = "idle"
    /\ ui_now = None
    /\ snap_times = <<>>
    /\ snap_flows = <<>>
    /\ snap_volumes = <<>>
    /\ animation = (program = FlowMonitor)
    /\ data_status = "Waiting..."
    /\ after_queue = 0
    /\ pushed = <<>>
    /\ lines_sent = 0
    /\ lost_signals = [t \in Threads |-> 0]
    /\ lost_pending = FALSE
    /\ reopens = 0
    /\ user_disconnected = FALSE
    /\ connected_at = IF program = FlowMonitor THEN 1 ELSE None
    /\ last_accept = None
    /\ device_failed = FALSE
    /\ parsed = <<>>
    /\ export_report = "none"
    /\ export_file = <<>>
    /\ exports = 0
    /\ comports = <<>>
    /\ port = None
    /\ port_prompted = FALSE
    /\ port_by = "none"

\* Thread.is_alive()
is_alive(t) == t /= None /\ th_pc[t] \notin {"new", "dead"}

Alive == {t \in Threads : is_alive(t)}

\* ------------------------------------------- ingestion thread: read loop
\* A loop that tests the connected flag only and never looks at the stop
\* flag.
ReadLoopTest_IgnoresStop(t) ==
    /\ th_pc[t] = "while"
    /\ th_pc' = [th_pc EXCEPT ![t] = IF is_connected THEN "try" ELSE "dead"]
    /\ UNCHANGED <<program, portvars, exportvars, bufvars, healthvars, connvars, uivars, histvars, ghostvars,
                   is_recording, start_time, thread_lock, now, after_queue,
                   pushed, lines_sent, data_thread, nthreads, th_line, th_raw,
                   th_errors, th_raised>>

\* while self.is_connected and self.is_running  (both programs test the two
\* flags; the loop ends when either is false)
ReadLoopTest(t) ==
    /\ th_pc[t] = "while"
    /\ th_pc' = [th_pc EXCEPT ![t] =
                    IF is_connected /\ is_running THEN "try" ELSE "dead"]
    /\ UNCHANGED <<program, portvars, exportvars, bufvars, healthvars, connvars, uivars, histvars, ghostvars,
                   is_recording, start_time, thread_lock, now, after_queue,
                   pushed, lines_sent, data_thread, nthreads, th_line, th_raw,
                   th_errors, th_raised>>

\* FlowMonitor._read_serial_data, one pass of the try block that reads nothing:
\* serial_connection is None (or went None between its two loads, an
\* AttributeError the generic handler logs), or in_waiting is 0.
FM_ReadNothing(t) ==
    /\ program = FlowMonitor
    /\ th_pc[t] = "try"
    /\ serial_connection = None \/ serial_connection \in open_handles
    /\ th_pc' = [th_pc EXCEPT ![t] = "while"]
    /\ th_raised' = [th_raised EXCEPT ![t] = 0]
    /\ UNCHANGED <<program, portvars, exportvars, bufvars, healthvars, connvars, uivars, histvars, ghostvars,
                   is_recording, start_time, thread_lock, now, after_queue,
                   pushed, lines_sent, data_thread, nthreads, th_line, th_raw,
                   th_errors>>

\* ... one pass that reads a line from the open handle; the line goes on to
\* _parse_data_line when it passes the filter.
FM_ReadLine(t, line) ==
    /\ program = FlowMonitor
    /\ th_pc[t] = "try"
    /\ serial_connection /= None /\ serial_connection \in open_handles
    /\ lines_sent' = lines_sent + 1
    /\ IF IsDataLineFM(decode(line))
       THEN /\ th_pc' = [th_pc EXCEPT ![t] = "parse"]
            /\ th_line' = [th_line EXCEPT ![t] = decode(line)]
            /\ th_raw' = [th_raw EXCEPT ![t] = line]
       ELSE /\ th_pc' = [th_pc EXCEPT ![t] = "while"]
            /\ UNCHANGED <<th_line, th_raw>>
    /\ parsed' = IF IsDataLineFM(decode(line)) THEN parsed
                 ELSE Append(parsed, [line |-> decode(line),
                                      outcome |-> "skipped", warned |-> FALSE])
    /\ th_raised' = [th_raised EXCEPT ![t] = 0]
    /\ UNCHANGED <<program, portvars, exportvars, bufvars, healthvars, connvars, uivars, histvars, connected_at, last_accept, device_failed,
                   is_recording, start_time, thread_lock, now, after_queue,
                   pushed, data_thread, nthreads, th_errors>>

\* ... one pass in which in_waiting raises serial.SerialException because the
\* handle the thread reached has been closed by the UI thread.
FM_ReadClosedHandle(t) ==
    /\ program = FlowMonitor
    /\ th_pc[t] = "try"
    /\ serial_connection /= None /\ serial_connection \notin open_handles
    /\ th_pc' = [th_pc EXCEPT ![t] = "except"]
    /\ th_raised' = [th_raised EXCEPT ![t] = @ + 1]
    /\ UNCHANGED <<program, portvars, exportvars, bufvars, healthvars, connvars, uivars, histvars, ghostvars,
                   is_recording, start_time, thread_lock, now, after_queue,
                   pushed, lines_sent, data_thread, nthreads, th_line, th_raw,
                   th_errors>>

\* ... one pass in which in_waiting / readline raises serial.SerialException
\* on the open handle: the device is gone.
FM_ReadError(t) ==
    /\ program = FlowMonitor
    /\ th_pc[t] = "try"
    /\ serial_connection /= None /\ serial_connection \in open_handles
    /\ th_pc' = [th_pc EXCEPT ![t] = "except"]
    /\ device_failed' = TRUE
    /\ th_raised' = [th_raised EXCEPT ![t] = @ + 1]
    /\ UNCHANGED <<program, portvars, exportvars, bufvars, healthvars, connvars, uivars, histvars,
                   connected_at, last_accept, parsed,
                   is_recording, start_time, thread_lock, now, after_queue,
                   pushed, lines_sent, data_thread, nthreads, th_line, th_raw,
                   th_errors>>

\* except serial.SerialException: self.is_connected = False; break
FM_ReadExcept(t) ==
    /\ program = FlowMonitor
    /\ th_pc[t] = "except"
    /\ is_connected' = FALSE
    /\ th_pc' = [th_pc EXCEPT ![t] = "dead"]
    /\ lost_signals' = [lost_signals EXCEPT ![t] = @ + 1]
    /\ lost_pending' = TRUE
    /\ th_raised' = [th_raised EXCEPT ![t] = 0]
    /\ UNCHANGED <<ghostvars, program, portvars, exportvars, bufvars, healthvars, uivars, is_recording,
                   start_time, thread_lock, now, after_queue, pushed,
                   lines_sent, data_thread, nthreads, th_line, th_raw, th_errors,
                   serial_connection, open_handles, opens, is_running,
                   last_reconnect_attempt, reopens, user_disconnected>>

\* ------------------------------------ FlowMonitor._parse_data_line
\* The part before the lock: split, convert, range check.
FM_ParseValidate(t) ==
    /\ program = FlowMonitor
    /\ th_pc[t] = "parse"
    /\ IF AcceptsFM(th_line[t])
       THEN /\ th_pc' = [th_pc EXCEPT ![t] = "acquire"]
            /\ UNCHANGED <<th_line, th_raw>>
       ELSE /\ th_pc' = [th_pc EXCEPT ![t] = "while"]
            /\ th_line' = [th_line EXCEPT ![t] = <<>>]
            /\ th_raw' = [th_raw EXCEPT ![t] = <<>>]
    /\ parsed' = Append(parsed, [line |-> th_line[t],
                                 outcome |-> ParseOutcomeFM(th_line[t]),
                                 warned |-> WarnsHighFlow(th_line[t])])
    /\ UNCHANGED <<program, portvars, exportvars, bufvars, healthvars, connvars, uivars, histvars, connected_at, last_accept, device_failed,
                   is_recording, start_time, thread_lock, now, after_queue,
                   pushed, lines_sent, data_thread, nthreads, th_errors, th_raised>>

\* with self.thread_lock:  (both programs; FlowMonitor writes the health
\* fields first, CrossPlatformFlowMonitor starts with the appends)
ParseAcquire(t) ==
    /\ th_pc[t] = "acquire"
    /\ thread_lock = None
    /\ thread_lock' = t
    /\ th_pc' = [th_pc EXCEPT ![t] =
                    IF program = FlowMonitor THEN "health" ELSE "app_t"]
    /\ UNCHANGED <<program, portvars, exportvars, bufvars, healthvars, connvars, uivars, histvars, ghostvars,
                   is_recording, start_time, now, after_queue, pushed,
                   lines_sent, data_thread, nthreads, th_line, th_raw, th_errors, th_raised>>

\* last_data_timestamp, sensor_status, latest_flow_rate, latest_total_volume
FM_ParseHealth(t) ==
    /\ program = FlowMonitor
    /\ th_pc[t] = "health"
    /\ LET r == ReadingOf(th_line[t], DEFAULT_SENSOR_STATUS) IN
        /\ last_data_timestamp' = now
        /\ last_accept' = now
        /\ sensor_status' = r.status
        /\ latest_flow_rate' = r.flow_rate
        /\ latest_total_volume' = r.total_volume
    /\ th_pc' = [th_pc EXCEPT ![t] = IF is_recording THEN "app_t" ELSE "release"]
    /\ UNCHANGED <<program, portvars, exportvars, bufvars, connvars, uivars, histvars, connected_at, device_failed, parsed, is_recording,
                   start_time, thread_lock, now, after_queue, pushed,
                   lines_sent, data_thread, nthreads, th_line, th_raw, th_errors, th_raised>>

\* The reading a thread is pushing: FlowMonitor stores the device time,
\* CrossPlatformFlowMonitor the time relative to start_time.
PushReading(t) ==
    LET r == ReadingOf(th_line[t],
                       IF program = FlowMonitor THEN DEFAULT_SENSOR_STATUS ELSE "")
    IN  [timestamp |-> IF program = FlowMonitor THEN r.timestamp
                       ELSE r.timestamp - start_time,
         flow_rate |-> r.flow_rate,
         total_volume |-> r.total_volume,
         status |-> r.status]

\* self.timestamps.append(...)
ParseAppendTimestamp(t) ==
    /\ th_pc[t] = "app_t"
    /\ timestamps' = Append_deque(timestamps, PushReading(t).timestamp)
    /\ th_pc' = [th_pc EXCEPT ![t] = "app_f"]
    /\ UNCHANGED <<program, portvars, exportvars, flow_rates, total_volumes, status_history,
                   total_data_points, max_flow_rate, healthvars, connvars,
                   uivars, histvars, ghostvars, is_recording, start_time, thread_lock, now,
                   after_queue, pushed, lines_sent, data_thread, nthreads,
                   th_line, th_raw, th_errors, th_raised>>

\* self.flow_rates.append(flow_rate)
ParseAppendFlow(t) ==
    /\ th_pc[t] = "app_f"
    /\ flow_rates' = Append_deque(flow_rates, PushReading(t).flow_rate)
    /\ th_pc' = [th_pc EXCEPT ![t] = "app_v"]
    /\ UNCHANGED <<program, portvars, exportvars, timestamps, total_volumes, status_history,
                   total_data_points, max_flow_rate, healthvars, connvars,
                   uivars, histvars, ghostvars, is_recording, start_time, thread_lock, now,
                   after_queue, pushed, lines_sent, data_thread, nthreads,
                   th_line, th_raw, th_errors, th_raised>>

\* self.total_volumes.append(total_volume)
ParseAppendVolume(t) ==
    /\ th_pc[t] = "app_v"
    /\ total_volumes' = Append_deque(total_volumes, PushReading(t).total_volume)
    /\ th_pc' = [th_pc EXCEPT ![t] = "stats"]
    /\ UNCHANGED <<program, portvars, exportvars, timestamps, flow_rates, status_history,
                   total_data_points, max_flow_rate, healthvars, connvars,
                   uivars, histvars, ghostvars, is_recording, start_time, thread_lock, now,
                   after_queue, pushed, lines_sent, data_thread, nthreads,
                   th_line, th_raw, th_errors, th_raised>>

Max(a, b) == IF a >= b THEN a ELSE b

\* FlowMonitor: status_history.append, total_data_points += 1, max_flow_rate;
\* CrossPlatformFlowMonitor: data_count += 1.  The push is complete.
ParseStats(t) ==
    /\ th_pc[t] = "stats"
    /\ IF program = FlowMonitor
       THEN /\ status_history' = Append_deque(status_history, PushReading(t).status)
            /\ max_flow_rate' = Max(max_flow_rate, PushReading(t).flow_rate)
       ELSE UNCHANGED <<status_history, max_flow_rate>>
    /\ total_data_points' = total_data_points + 1
    /\ pushed' = Append(pushed, PushReading(t))
    /\ th_pc' = [th_pc EXCEPT ![t] = "release"]
    /\ UNCHANGED <<program, portvars, exportvars, timestamps, flow_rates, total_volumes, healthvars,
                   connvars, uivars, histvars, ghostvars, is_recording, start_time,
                   thread_lock, now, after_queue, lines_sent, data_thread,
                   nthreads, th_line, th_raw, th_errors, th_raised>>

\* the end of the with block, and of the pass of the read loop
ParseRelease(t) ==
    /\ th_pc[t] = "release"
    /\ thread_lock' = None
    /\ th_pc' = [th_pc EXCEPT ![t] = "while"]
    /\ th_line' = [th_line EXCEPT ![t] = <<>>]
    /\ th_raw' = [th_raw EXCEPT ![t] = <<>>]
    /\ UNCHANGED <<program, portvars, exportvars, bufvars, healthvars, connvars, uivars, histvars, ghostvars,
                   is_recording, start_time, now, after_queue, pushed,
                   lines_sent, data_thread, nthreads, th_errors, th_raised>>

\* A parser that drops the whole reading while recording is paused.
FM_ParseDataLine_PausedDropsReading(t) ==
    /\ program = FlowMonitor
    /\ th_pc[t] = "parse"
    /\ thread_lock = None
    /\ th_pc' = [th_pc EXCEPT ![t] = "while"]
    /\ th_line' = [th_line EXCEPT ![t] = <<>>]
    /\ th_raw' = [th_raw EXCEPT ![t] = <<>>]
    /\ IF AcceptsFM(th_line[t])
       THEN LET r == PushReading(t) IN
            /\ last_accept' = now
            /\ IF is_recording
               THEN /\ last_data_timestamp' = now
                    /\ sensor_status' = r.status
                    /\ latest_flow_rate' = r.flow_rate
                    /\ latest_total_volume' = r.total_volume
                    /\ timestamps' = Append_deque(timestamps, r.timestamp)
                    /\ flow_rates' = Append_deque(flow_rates, r.flow_rate)
                    /\ total_volumes' = Append_deque(total_volumes, r.total_volume)
                    /\ status_history' = Append_deque(status_history, r.status)
                    /\ total_data_points' = total_data_points + 1
                    /\ max_flow_rate' = Max(max_flow_rate, r.flow_rate)
                    /\ pushed' = Append(pushed, r)
               ELSE UNCHANGED <<bufvars, healthvars, pushed>>
       ELSE UNCHANGED <<bufvars, healthvars, pushed, last_accept>>
    /\ parsed' = Append(parsed, [line |-> th_line[t],
                                 outcome |-> ParseOutcomeFM(th_line[t]),
                                 warned |-> WarnsHighFlow(th_line[t])])
    /\ UNCHANGED <<program, portvars, exportvars, connvars, uivars, histvars, connected_at, device_failed, is_recording, start_time,
                   thread_lock, now, after_queue, lines_sent, data_thread,
                   nthreads, th_errors, th_raised>>

\* _parse_data_line as one step (the lock makes its writes one step for every
\* other lock holder): used where no other thread works inside the lock.
FM_ParseDataLine(t) ==
    /\ program = FlowMonitor
    /\ th_pc[t] = "parse"
    /\ thread_lock = None
    /\ th_pc' = [th_pc EXCEPT ![t] = "while"]
    /\ th_line' = [th_line EXCEPT ![t] = <<>>]
    /\ th_raw' = [th_raw EXCEPT ![t] = <<>>]
    /\ IF AcceptsFM(th_line[t])
       THEN LET r == PushReading(t) IN
            /\ last_data_timestamp' = now
            /\ last_accept' = now
            /\ sensor_status' = r.status
            /\ latest_flow_rate' = r.flow_rate
            /\ latest_total_volume' = r.total_volume
            /\ IF is_recording
               THEN /\ timestamps' = Append_deque(timestamps, r.timestamp)
                    /\ flow_rates' = Append_deque(flow_rates, r.flow_rate)
                    /\ total_volumes' = Append_deque(total_volumes, r.total_volume)
                    /\ status_history' = Append_deque(status_history, r.status)
                    /\ total_data_points' = total_data_points + 1
                    /\ max_flow_rate' = Max(max_flow_rate, r.flow_rate)
                    /\ pushed' = Append(pushed, r)
               ELSE UNCHANGED <<bufvars, pushed>>
       ELSE UNCHANGED <<bufvars, healthvars, pushed, last_accept>>
    /\ parsed' = Append(parsed, [line |-> th_line[t],
                                 outcome |-> ParseOutcomeFM(th_line[t]),
                                 warned |-> WarnsHighFlow(th_line[t])])
    /\ UNCHANGED <<program, portvars, exportvars, connvars, uivars, histvars, connected_at, device_failed, is_recording, start_time,
                   thread_lock, now, after_queue, lines_sent, data_thread,
                   nthreads, th_errors, th_raised>>

\* ------------------------- CrossPlatformFlowMonitor.read_serial_data
\* if not self.serial_connection or not self.serial_connection.is_open: break
CP_ReadClosed(t) ==
    /\ program = CrossPlatformFlowMonitor
    /\ th_pc[t] = "try"
    /\ serial_connection = None \/ serial_connection \notin open_handles
    /\ th_pc' = [th_pc EXCEPT ![t] = "dead"]
    /\ UNCHANGED <<program, portvars, exportvars, bufvars, healthvars, connvars, uivars, histvars, ghostvars,
                   is_recording, start_time, thread_lock, now, after_queue,
                   pushed, lines_sent, data_thread, nthreads, th_line, th_raw,
                   th_errors, th_raised>>

\* readline() returns a line: the error count is reset, a data line goes on to
\* parse_data_line.
CP_ReadLine(t, line) ==
    /\ program = CrossPlatformFlowMonitor
    /\ th_pc[t] = "try"
    /\ serial_connection /= None /\ serial_connection \in open_handles
    /\ lines_sent' = lines_sent + 1
    /\ th_errors' = [th_errors EXCEPT ![t] = 0]
    /\ IF is_valid_data_line(decode(line))
       THEN /\ th_pc' = [th_pc EXCEPT ![t] = "parse"]
            /\ th_line' = [th_line EXCEPT ![t] = decode(line)]
            /\ th_raw' = [th_raw EXCEPT ![t] = line]
       ELSE /\ th_pc' = [th_pc EXCEPT ![t] = "while"]
            /\ UNCHANGED <<th_line, th_raw>>
    /\ parsed' = IF is_valid_data_line(decode(line)) THEN parsed
                 ELSE Append(parsed, [line |-> decode(line),
                                      outcome |-> "skipped", warned |-> FALSE])
    /\ UNCHANGED <<th_raised, program, portvars, exportvars, bufvars, healthvars, connvars, uivars, histvars, connected_at, last_accept, device_failed,
                   is_recording, start_time, thread_lock, now, after_queue,
                   pushed, data_thread, nthreads>>

\* readline() times out and returns nothing: sleep, next pass.
CP_ReadEmpty(t) ==
    /\ program = CrossPlatformFlowMonitor
    /\ th_pc[t] = "try"
    /\ serial_connection /= None /\ serial_connection \in open_handles
    /\ th_pc' = [th_pc EXCEPT ![t] = "while"]
    /\ UNCHANGED <<program, portvars, exportvars, bufvars, healthvars, connvars, uivars, histvars, ghostvars,
                   is_recording, start_time, thread_lock, now, after_queue,
                   pushed, lines_sent, data_thread, nthreads, th_line, th_raw,
                   th_errors, th_raised>>

\* The threshold test off by one: only more than the maximum counts.
TooManyErrors_OffByOne(n) == n > max_consecutive_errors

\* The threshold test of the two except blocks.
TooManyErrors(n) == n >= max_consecutive_errors

\* readline() raises (the device is gone, or the handle was closed during the
\* read): count the error; at the threshold schedule handle_connection_lost
\* on the UI thread and leave the loop.
CP_ReadError(t) ==
    /\ program = CrossPlatformFlowMonitor
    /\ th_pc[t] = "try"
    /\ serial_connection /= None /\ serial_connection \in open_handles
    /\ th_errors' = [th_errors EXCEPT ![t] = @ + 1]
    /\ device_failed' = TRUE
    /\ IF TooManyErrors(th_errors[t] + 1)
       THEN /\ after_queue' = after_queue + 1
            /\ lost_signals' = [lost_signals EXCEPT ![t] = @ + 1]
            /\ lost_pending' = TRUE
            /\ th_pc' = [th_pc EXCEPT ![t] = "dead"]
       ELSE /\ th_pc' = [th_pc EXCEPT ![t] = "while"]
            /\ UNCHANGED <<after_queue, lost_signals, lost_pending>>
    /\ UNCHANGED <<th_raised, connected_at, last_accept, parsed, program, portvars, exportvars, bufvars, healthvars, connvars, uivars, is_recording,
                   start_time, thread_lock, now, pushed, lines_sent,
                   data_thread, nthreads, th_line, th_raw, reopens, user_disconnected>>

\* parse_data_line, the part before the lock: split, convert, start_time.
CP_ParseValidate(t) ==
    /\ program = CrossPlatformFlowMonitor
    /\ th_pc[t] = "parse"
    /\ IF AcceptsCP(th_line[t])
       THEN /\ th_pc' = [th_pc EXCEPT ![t] = "acquire"]
            /\ start_time' = IF start_time = None
                             THEN ReadingOf(th_line[t], "").timestamp
                             ELSE start_time
            /\ UNCHANGED <<th_line, th_raw>>
       ELSE /\ th_pc' = [th_pc EXCEPT ![t] = "while"]
            /\ th_line' = [th_line EXCEPT ![t] = <<>>]
            /\ th_raw' = [th_raw EXCEPT ![t] = <<>>]
            /\ UNCHANGED start_time
    /\ parsed' = Append(parsed, [line |-> th_line[t],
                                 outcome |-> ParseOutcomeCP(th_line[t]),
                                 warned |-> FALSE])
    /\ UNCHANGED <<program, portvars, exportvars, bufvars, healthvars, connvars, uivars, histvars, connected_at, last_accept, device_failed,
                   is_recording, thread_lock, now, after_queue, pushed,
                   lines_sent, data_thread, nthreads, th_errors, th_raised>>

\* parse_data_line as one step.
CP_ParseDataLine(t) ==
    /\ program = CrossPlatformFlowMonitor
    /\ th_pc[t] = "parse"
    /\ thread_lock = None
    /\ th_pc' = [th_pc EXCEPT ![t] = "while"]
    /\ th_line' = [th_line EXCEPT ![t] = <<>>]
    /\ th_raw' = [th_raw EXCEPT ![t] = <<>>]
    /\ IF AcceptsCP(th_line[t])
       THEN LET r == ReadingOf(th_line[t], "")
                st == IF start_time = None THEN r.timestamp ELSE start_time
                rel == [timestamp |-> r.timestamp - st,
                        flow_rate |-> r.flow_rate,
                        total_volume |-> r.total_volume,
                        status |-> r.status]
            IN  /\ start_time' = st
                /\ timestamps' = Append_deque(timestamps, rel.timestamp)
                /\ flow_rates' = Append_deque(flow_rates, rel.flow_rate)
                /\ total_volumes' = Append_deque(total_volumes, rel.total_volume)
                /\ total_data_points' = total_data_points + 1
                /\ pushed' = Append(pushed, rel)
                /\ UNCHANGED <<status_history, max_flow_rate>>
       ELSE UNCHANGED <<bufvars, start_time, pushed>>
    /\ parsed' = Append(parsed, [line |-> th_line[t],
                                 outcome |-> ParseOutcomeCP(th_line[t]),
                                 warned |-> FALSE])
    /\ UNCHANGED <<program, portvars, exportvars, healthvars, connvars, uivars, histvars, connected_at, last_accept, device_failed, is_recording,
                   thread_lock, now, after_queue, lines_sent, data_thread,
                   nthreads, th_errors, th_raised>>

\* ------------------------------------------------- the render tick
\* animate starts.  FlowMonitor first tests `not self.timestamps` without the
\* lock and returns on an empty buffer.
AnimateBegin ==
    /\ ui_pc = "idle"
    /\ animation
    /\ ui_pc' = IF program = FlowMonitor /\ timestamps = <<>>
                THEN "idle" ELSE "a_acquire"
    /\ UNCHANGED <<program, portvars, exportvars, bufvars, healthvars, connvars, threadvars, histvars, ghostvars,
                   is_recording, start_time, thread_lock, now, after_queue,
                   pushed, lines_sent, ui_now, snap_times, snap_flows,
                   snap_volumes, data_status, animation>>

\* animate copying the series without waiting for the lock.
AnimateAcquire_NoLock ==
    /\ ui_pc = "a_acquire"
    /\ ui_pc' = "a_t"
    /\ UNCHANGED <<program, portvars, exportvars, bufvars, healthvars, connvars, threadvars, histvars,
                   ghostvars, is_recording, start_time, thread_lock, now,
                   after_queue, pushed, lines_sent, ui_now, snap_times,
                   snap_flows, snap_volumes, data_status, animation>>

\* with self.thread_lock: CrossPlatformFlowMonitor tests the buffer inside
\* the lock and, when it is empty, goes on to draw_idle with the lock held.
AnimateAcquire ==
    /\ ui_pc = "a_acquire"
    /\ thread_lock = None
    /\ thread_lock' = UI
    /\ ui_pc' = IF program = CrossPlatformFlowMonitor /\ timestamps = <<>>
                THEN "a_draw_empty" ELSE "a_t"
    /\ UNCHANGED <<program, portvars, exportvars, bufvars, healthvars, connvars, threadvars, histvars, ghostvars,
                   is_recording, start_time, now, after_queue, pushed,
                   lines_sent, ui_now, snap_times, snap_flows, snap_volumes,
                   data_status, animation>>

\* CrossPlatformFlowMonitor.animate on an empty buffer: canvas.draw_idle()
\* inside the with block, then the return releases the lock.
CP_AnimateDrawEmpty ==
    /\ program = CrossPlatformFlowMonitor
    /\ ui_pc = "a_draw_empty"
    /\ thread_lock = UI
    /\ thread_lock' = None
    /\ ui_pc' = "idle"
    /\ UNCHANGED <<program, portvars, exportvars, bufvars, healthvars, connvars, threadvars, histvars, ghostvars,
                   is_recording, start_time, now, after_queue, pushed,
                   lines_sent, ui_now, snap_times, snap_flows, snap_volumes,
                   data_status, animation>>

\* times = list(self.timestamps)
AnimateCopyTimes ==
    /\ ui_pc = "a_t"
    /\ snap_times' = timestamps
    /\ ui_pc' = "a_f"
    /\ UNCHANGED <<program, portvars, exportvars, bufvars, healthvars, connvars, threadvars, histvars, ghostvars,
                   is_recording, start_time, thread_lock, now, after_queue,
                   pushed, lines_sent, ui_now, snap_flows, snap_volumes,
                   data_status, animation>>

\* flows = list(self.flow_rates)
AnimateCopyFlows ==
    /\ ui_pc = "a_f"
    /\ snap_flows' = flow_rates
    /\ ui_pc' = "a_v"
    /\ UNCHANGED <<program, portvars, exportvars, bufvars, healthvars, connvars, threadvars, histvars, ghostvars,
                   is_recording, start_time, thread_lock, now, after_queue,
                   pushed, lines_sent, ui_now, snap_times, snap_volumes,
                   data_status, animation>>

\* volumes = list(self.total_volumes): the snapshot is complete.
AnimateCopyVolumes ==
    /\ ui_pc = "a_v"
    /\ snap_volumes' = total_volumes
    /\ ui_pc' = "a_release"
    /\ UNCHANGED <<program, portvars, exportvars, bufvars, healthvars, connvars, threadvars, histvars, ghostvars,
                   is_recording, start_time, thread_lock, now, after_queue,
                   pushed, lines_sent, ui_now, snap_times, snap_flows,
                   data_status, animation>>

\* The end of the with block: the copies go on to the chart.
AnimateRelease ==
    /\ ui_pc = "a_release"
    /\ thread_lock' = None
    /\ ui_pc' = "a_draw"
    /\ UNCHANGED <<program, portvars, exportvars, bufvars, healthvars, connvars, threadvars, histvars, ghostvars,
                   is_recording, start_time, now, after_queue, pushed,
                   lines_sent, ui_now, snap_times, snap_flows, snap_volumes,
                   data_status, animation>>

\* FlowMonitor.animate: start_time = times[0];
\* normalized_times = [t - start_time for t in times]
NormalizedTimes(times) ==
    IF times = <<>> THEN <<>>
    ELSE [i \in 1..Len(times) |-> times[i] - times[1]]

\* The x data of line1.set_data / line2.set_data: FlowMonitor hands over
\* normalized_times, CrossPlatformFlowMonitor the copy itself (the times
\* parse_data_line stored, relative to the session's first timestamp).
ChartTimes ==
    IF program = FlowMonitor THEN NormalizedTimes(snap_times) ELSE snap_times

\* set_data with the copies (and the axis limits).  CrossPlatformFlowMonitor
\* then runs update_status and draw_idle and returns; FlowMonitor goes on to
\* the status summary.
AnimateDraw ==
    /\ ui_pc = "a_draw"
    /\ IF program = FlowMonitor
       THEN ui_pc' = "a_status" /\ UNCHANGED <<snap_times, snap_flows, snap_volumes>>
       ELSE /\ ui_pc' = "idle"
            /\ snap_times' = <<>> /\ snap_flows' = <<>> /\ snap_volumes' = <<>>
    /\ UNCHANGED <<program, portvars, exportvars, bufvars, healthvars, connvars, threadvars, histvars, ghostvars,
                   is_recording, start_time, thread_lock, now, after_queue,
                   pushed, lines_sent, ui_now, data_status, animation>>

\* The data status _compute_status_summary returns at time n.
DataStatus(n) ==
    IF ~is_connected THEN "No connection"
    ELSE IF last_data_timestamp = None THEN "Waiting..."
    ELSE IF n - last_data_timestamp > DATA_TIMEOUT_SECONDS THEN "Stale"
    ELSE "Receiving"

\* _compute_status_summary and _update_displays (both take the lock for
\* their reads); the plot has been drawn from the copies.
FM_AnimateStatus ==
    /\ program = FlowMonitor
    /\ ui_pc = "a_status"
    /\ thread_lock = None
    /\ ui_now' = now
    /\ data_status' = DataStatus(now)
    /\ snap_times' = <<>> /\ snap_flows' = <<>> /\ snap_volumes' = <<>>
    /\ ui_pc' = "a_reconnect"
    /\ UNCHANGED <<program, portvars, exportvars, bufvars, healthvars, connvars, threadvars, histvars, ghostvars,
                   is_recording, start_time, thread_lock, now, after_queue,
                   pushed, lines_sent, animation>>

\* A tick that drops the session when it finds the data stale.
FM_Animate_StaleTearsDown ==
    /\ program = FlowMonitor
    /\ ui_pc = "idle"
    /\ animation
    /\ thread_lock = None
    /\ ui_now' = now
    /\ data_status' = DataStatus(now)
    /\ is_connected' = (is_connected /\ DataStatus(now) /= "Stale")
    /\ ui_pc' = "a_reconnect"
    /\ UNCHANGED <<program, portvars, exportvars, bufvars, healthvars, threadvars, histvars, ghostvars,
                   is_recording, start_time, thread_lock, now, after_queue,
                   pushed, lines_sent, snap_times, snap_flows, snap_volumes,
                   animation, serial_connection, open_handles, opens,
                   is_running, last_reconnect_attempt>>

\* animate up to the status summary as one step (snapshot included).
FM_Animate ==
    /\ program = FlowMonitor
    /\ ui_pc = "idle"
    /\ animation
    /\ thread_lock = None
    /\ ui_now' = now
    /\ data_status' = DataStatus(now)
    /\ ui_pc' = "a_reconnect"
    /\ UNCHANGED <<program, portvars, exportvars, bufvars, healthvars, connvars, threadvars, histvars, ghostvars,
                   is_recording, start_time, thread_lock, now, after_queue,
                   pushed, lines_sent, snap_times, snap_flows, snap_volumes,
                   animation>>

\* ------------------------------------ FlowMonitor: automatic reconnect
\* The outer test with >= in place of >.
ReconnectDue_AtLeast(n) ==
    /\ is_connected
    /\ Truthy(last_data_timestamp)
    /\ n - last_data_timestamp >= RECONNECT_AFTER_SECONDS

\* The outer test of _handle_auto_reconnect at time n.
ReconnectDue(n) ==
    /\ is_connected
    /\ Truthy(last_data_timestamp)
    /\ n - last_data_timestamp > RECONNECT_AFTER_SECONDS

\* The inner test: no attempt yet, or the last one more than 5.0 s ago.
BackoffOver(n) ==
    \/ ~Truthy(last_reconnect_attempt)
    \/ n - last_reconnect_attempt > RECONNECT_BACKOFF_SECONDS

\* The model's bounds leave room for one more reconnect.
RoomToReconnect ==
    /\ opens < MaxOpens
    /\ nthreads < MaxThreads
    /\ now + SETTLE_SECONDS <= MaxTime

\* A reconnect on every tick of a connected session: no silence test, no
\* backoff test.
FM_HandleAutoReconnect_Eager ==
    /\ program = FlowMonitor
    /\ ui_pc = "a_reconnect"
    /\ IF is_connected
       THEN /\ RoomToReconnect
            /\ last_reconnect_attempt' = ui_now
            /\ ui_pc' = "rc_close"
       ELSE /\ ui_pc' = "idle"
            /\ UNCHANGED last_reconnect_attempt
    /\ UNCHANGED <<program, portvars, exportvars, bufvars, healthvars, threadvars, histvars, ghostvars,
                   is_recording, start_time, thread_lock, now, after_queue,
                   pushed, lines_sent, serial_connection, open_handles, opens,
                   is_connected, is_running, ui_now, snap_times, snap_flows,
                   snap_volumes, data_status, animation>>

\* _handle_auto_reconnect(now), the tests: either the tick ends here, or the
\* attempt is stamped and the close / connect / thread start follow.
FM_HandleAutoReconnect ==
    /\ program = FlowMonitor
    /\ ui_pc = "a_reconnect"
    /\ IF ReconnectDue(ui_now) /\ BackoffOver(ui_now)
       THEN /\ RoomToReconnect
            /\ last_reconnect_attempt' = ui_now
            /\ ui_pc' = "rc_close"
       ELSE /\ ui_pc' = "idle"
            /\ UNCHANGED last_reconnect_attempt
    /\ UNCHANGED <<program, portvars, exportvars, bufvars, healthvars, threadvars, histvars, ghostvars,
                   is_recording, start_time, thread_lock, now, after_queue,
                   pushed, lines_sent, serial_connection, open_handles, opens,
                   is_connected, is_running, ui_now, snap_times, snap_flows,
                   snap_volumes, data_status, animation>>

\* A close that drops the reference without closing the handle.
FM_CloseHandle_NoClose ==
    /\ program = FlowMonitor
    /\ ui_pc = "rc_close"
    /\ ui_pc' = "rc_finally"
    /\ UNCHANGED <<program, portvars, exportvars, bufvars, healthvars, threadvars, histvars, ghostvars,
                   is_recording, start_time, thread_lock, now, after_queue,
                   pushed, lines_sent, serial_connection, opens, is_connected,
                   is_running, last_reconnect_attempt, ui_now, snap_times,
                   snap_flows, snap_volumes, data_status, animation,
                   open_handles>>

\* _close_connection, the try block: close the handle when there is an open one.
FM_CloseHandle ==
    /\ program = FlowMonitor
    /\ ui_pc = "rc_close"
    /\ open_handles' = open_handles \ {serial_connection}
    /\ ui_pc' = "rc_finally"
    /\ UNCHANGED <<program, portvars, exportvars, bufvars, healthvars, threadvars, histvars, ghostvars,
                   is_recording, start_time, thread_lock, now, after_queue,
                   pushed, lines_sent, serial_connection, opens, is_connected,
                   is_running, last_reconnect_attempt, ui_now, snap_times,
                   snap_flows, snap_volumes, data_status, animation>>

\* A close that also clears the buffer, as the reset does.
FM_CloseFinally_ClearsBuffer ==
    /\ program = FlowMonitor
    /\ ui_pc = "rc_finally"
    /\ serial_connection' = None
    /\ is_connected' = FALSE
    /\ ui_pc' = "rc_open"
    /\ timestamps' = <<ZeroSample.timestamp>>
    /\ flow_rates' = <<ZeroSample.flow_rate>>
    /\ total_volumes' = <<ZeroSample.total_volume>>
    /\ status_history' = <<ZeroSample.status>>
    /\ UNCHANGED <<program, portvars, exportvars, healthvars, threadvars, histvars, ghostvars,
                   is_recording, start_time, thread_lock, now, after_queue,
                   pushed, lines_sent, open_handles, opens, is_running,
                   last_reconnect_attempt, ui_now, snap_times, snap_flows,
                   snap_volumes, data_status, animation, total_data_points,
                   max_flow_rate>>

\* _close_connection, the finally block.
FM_CloseFinally ==
    /\ program = FlowMonitor
    /\ ui_pc = "rc_finally"
    /\ serial_connection' = None
    /\ is_connected' = FALSE
    /\ ui_pc' = "rc_open"
    /\ UNCHANGED <<program, portvars, exportvars, bufvars, healthvars, threadvars, histvars, ghostvars,
                   is_recording, start_time, thread_lock, now, after_queue,
                   pushed, lines_sent, open_handles, opens, is_running,
                   last_reconnect_attempt, ui_now, snap_times, snap_flows,
                   snap_volumes, data_status, animation>>

\* _connect_to_arduino: serial.Serial(port, baudrate, timeout=1) opens the
\* device, or raises SerialException (is_connected = False, return False).
FM_OpenSerial(ok) ==
    /\ program = FlowMonitor
    /\ ui_pc = "rc_open"
    /\ reopens' = reopens + 1
    /\ lost_pending' = FALSE
    /\ IF ok
       THEN /\ opens' = opens + 1
            /\ serial_connection' = opens + 1
            /\ open_handles' = open_handles \cup {opens + 1}
            /\ ui_pc' = "rc_settle"
            /\ UNCHANGED is_connected
       ELSE /\ is_connected' = FALSE
            /\ ui_pc' = "idle"
            /\ UNCHANGED <<opens, serial_connection, open_handles>>
    /\ UNCHANGED <<program, portvars, exportvars, bufvars, healthvars, threadvars, ghostvars,
                   is_recording, start_time, thread_lock, now, after_queue,
                   pushed, lines_sent, is_running, last_reconnect_attempt,
                   ui_now, snap_times, snap_flows, snap_volumes, data_status,
                   animation, lost_signals, user_disconnected>>

\* time.sleep(2); flushInput(); then the session is Connected with the
\* no-data timer reset -- or flushInput raises SerialException.
FM_SettleAndConnect(ok) ==
    /\ program = FlowMonitor
    /\ ui_pc = "rc_settle"
    /\ now' = now + SETTLE_SECONDS
    /\ IF ok
       THEN /\ is_connected' = TRUE
            /\ last_data_timestamp' = None
            /\ sensor_status' = DEFAULT_SENSOR_STATUS
            /\ connected_at' = now'
            /\ ui_pc' = "rc_start"
       ELSE /\ is_connected' = FALSE
            /\ ui_pc' = "idle"
            /\ UNCHANGED <<last_data_timestamp, sensor_status, connected_at>>
    /\ UNCHANGED <<program, portvars, exportvars, bufvars, threadvars, histvars, last_accept,
                   device_failed, parsed,
                   is_recording, start_time, thread_lock, after_queue, pushed,
                   lines_sent, serial_connection, open_handles, opens,
                   is_running, last_reconnect_attempt, ui_now, snap_times,
                   snap_flows, snap_volumes, data_status, animation,
                   latest_flow_rate, latest_total_volume>>

\* A thread start without the is_alive test.
StartThread_Always ==
    /\ nthreads' = nthreads + 1
    /\ data_thread' = nthreads + 1
    /\ th_pc' = [th_pc EXCEPT ![nthreads + 1] = "while"]

\* _start_data_thread / start_data_thread: nothing when the latest thread is
\* alive, else a new thread that enters the read loop.
StartThread ==
    IF is_alive(data_thread)
    THEN UNCHANGED <<data_thread, nthreads, th_pc>>
    ELSE /\ nthreads' = nthreads + 1
         /\ data_thread' = nthreads + 1
         /\ th_pc' = [th_pc EXCEPT ![nthreads + 1] = "while"]

\* if self._connect_to_arduino(): self._start_data_thread()
FM_StartDataThread ==
    /\ program = FlowMonitor
    /\ ui_pc = "rc_start"
    /\ StartThread
    /\ ui_pc' = "idle"
    /\ UNCHANGED <<program, portvars, exportvars, bufvars, healthvars, connvars, histvars, ghostvars,
                   is_recording, start_time, thread_lock, now, after_queue,
                   pushed, lines_sent, th_line, th_raw, th_errors, th_raised, ui_now, snap_times,
                   snap_flows, snap_volumes, data_status, animation>>

\* The window is closed: on_close (is_running = False, _close_connection), and
\* the same again in the finally of run().
FM_OnClose ==
    /\ program = FlowMonitor
    /\ ui_pc = "idle"
    /\ animation
    /\ is_running' = FALSE
    /\ open_handles' = open_handles \ {serial_connection}
    /\ serial_connection' = None
    /\ is_connected' = FALSE
    /\ animation' = FALSE
    /\ ui_pc' = "closed"
    /\ user_disconnected' = TRUE
    /\ UNCHANGED <<program, portvars, exportvars, bufvars, healthvars, threadvars, ghostvars,
                   is_recording, start_time, thread_lock, now, after_queue,
                   pushed, lines_sent, opens, last_reconnect_attempt,
                   ui_now, snap_times, snap_flows, snap_volumes, data_status,
                   lost_signals, lost_pending, reopens>>

\* time passes (only FlowMonitor reads the clock)
Advance ==
    /\ program = FlowMonitor
    /\ now < MaxTime
    /\ now' = now + 1
    /\ UNCHANGED <<program, portvars, exportvars, bufvars, healthvars, connvars, threadvars, uivars,
                   histvars, ghostvars, is_recording, start_time, thread_lock,
                   after_queue, pushed, lines_sent>>

\* A reset that does not wait for the lock.
FM_ResetAcquire_NoLock ==
    /\ program = FlowMonitor
    /\ ui_pc = "idle"
    /\ animation
    /\ ui_pc' = "reset"
    /\ UNCHANGED <<program, portvars, exportvars, bufvars, healthvars, connvars, threadvars, histvars,
                   ghostvars, is_recording, start_time, now, after_queue,
                   pushed, lines_sent, ui_now, snap_times, snap_flows,
                   snap_volumes, data_status, animation, thread_lock>>

\* ------------------------------------------- FlowMonitor: the buttons
\* reset_data: with self.thread_lock:
FM_ResetAcquire ==
    /\ program = FlowMonitor
    /\ ui_pc = "idle"
    /\ animation
    /\ thread_lock = None
    /\ thread_lock' = UI
    /\ ui_pc' = "reset"
    /\ UNCHANGED <<program, portvars, exportvars, bufvars, healthvars, connvars, threadvars, histvars,
                   ghostvars, is_recording, start_time, now, after_queue,
                   pushed, lines_sent, ui_now, snap_times, snap_flows,
                   snap_volumes, data_status, animation>>

\* A reset that clears the deques and leaves total_data_points as it was.
FM_ResetBody_KeepsCount ==
    /\ program = FlowMonitor
    /\ ui_pc = "reset"
    /\ timestamps' = <<ZeroSample.timestamp>>
    /\ flow_rates' = <<ZeroSample.flow_rate>>
    /\ total_volumes' = <<ZeroSample.total_volume>>
    /\ status_history' = <<ZeroSample.status>>
    /\ max_flow_rate' = 0
    /\ last_data_timestamp' = None
    /\ sensor_status' = DEFAULT_SENSOR_STATUS
    /\ latest_flow_rate' = 0
    /\ latest_total_volume' = 0
    /\ pushed' = <<>>
    /\ thread_lock' = None
    /\ ui_pc' = "idle"
    /\ UNCHANGED <<program, portvars, exportvars, connvars, threadvars, histvars, ghostvars,
                   total_data_points,
                   is_recording, start_time, now, after_queue, lines_sent,
                   ui_now, snap_times, snap_flows, snap_volumes, data_status,
                   animation>>

\* reset_data, the with block: _reset_data_internal and the statistics (the
\* origin of the run-time display, start_time, plays no part in the model of
\* FlowMonitor).
FM_ResetBody ==
    /\ program = FlowMonitor
    /\ ui_pc = "reset"
    /\ timestamps' = <<ZeroSample.timestamp>>
    /\ flow_rates' = <<ZeroSample.flow_rate>>
    /\ total_volumes' = <<ZeroSample.total_volume>>
    /\ status_history' = <<ZeroSample.status>>
    /\ total_data_points' = 0
    /\ max_flow_rate' = 0
    /\ last_data_timestamp' = None
    /\ sensor_status' = DEFAULT_SENSOR_STATUS
    /\ latest_flow_rate' = 0
    /\ latest_total_volume' = 0
    /\ pushed' = <<>>
    /\ thread_lock' = None
    /\ ui_pc' = "idle"
    /\ UNCHANGED <<program, portvars, exportvars, connvars, threadvars, histvars, ghostvars,
                   is_recording, start_time, now, after_queue, lines_sent,
                   ui_now, snap_times, snap_flows, snap_volumes, data_status,
                   animation>>

\* toggle_recording
FM_ToggleRecording ==
    /\ program = FlowMonitor
    /\ ui_pc = "idle"
    /\ animation
    /\ is_recording' = ~is_recording
    /\ UNCHANGED <<program, portvars, exportvars, bufvars, healthvars, connvars, threadvars, uivars,
                   histvars, ghostvars, start_time, thread_lock, now,
                   after_queue, pushed, lines_sent>>

\* ------------------------------- CrossPlatformFlowMonitor: connection
\* connect_arduino (the Connect button, or the second half of reconnect):
\* nothing when connected; else Serial(...) opens the device and the session
\* is Connected with the thread and the animation started, or it raises and
\* cleanup_connection runs.
CP_ConnectArduino(ok) ==
    /\ program = CrossPlatformFlowMonitor
    /\ ui_pc \in {"idle", "reconnect"}
    /\ ui_pc' = "idle"
    /\ user_disconnected' = FALSE
    /\ IF is_connected
       THEN UNCHANGED <<serial_connection, open_handles, opens, is_connected,
                        data_thread, nthreads, th_pc, animation, connected_at,
                        lost_pending, reopens>>
       ELSE /\ opens < MaxOpens /\ nthreads < MaxThreads
            /\ lost_pending' = FALSE
            /\ reopens' = reopens
            /\ IF ok
               THEN /\ opens' = opens + 1
                    /\ serial_connection' = opens + 1
                    /\ open_handles' = open_handles \cup {opens + 1}
                    /\ is_connected' = TRUE
                    /\ StartThread
                    /\ animation' = TRUE
                    /\ connected_at' = now
               ELSE /\ is_connected' = FALSE
                    /\ open_handles' = open_handles \ {serial_connection}
                    /\ serial_connection' = None
                    /\ UNCHANGED <<opens, data_thread, nthreads, th_pc,
                                   animation, connected_at>>
    /\ UNCHANGED <<program, portvars, exportvars, bufvars, healthvars, is_recording, start_time,
                   thread_lock, now, after_queue, pushed, lines_sent,
                   is_running, last_reconnect_attempt, th_line, th_raw, th_errors, th_raised,
                   ui_now, snap_times, snap_flows, snap_volumes, data_status,
                   lost_signals, last_accept, device_failed, parsed>>

\* A disconnect that drops the flags and forgets to close the handle.
CP_DisconnectArduino_NoClose ==
    /\ program = CrossPlatformFlowMonitor
    /\ ui_pc = "idle"
    /\ is_connected
    /\ is_running' = FALSE
    /\ is_connected' = FALSE
    /\ user_disconnected' = TRUE
    /\ UNCHANGED <<program, portvars, exportvars, bufvars, healthvars, threadvars, uivars, ghostvars,
                   is_recording, start_time, thread_lock, now, after_queue,
                   pushed, lines_sent, opens, last_reconnect_attempt,
                   lost_signals, lost_pending, reopens, open_handles,
                   serial_connection>>

\* disconnect_arduino (the Disconnect button, enabled while connected):
\* is_running = False, close the handle, cleanup_connection.
CP_DisconnectArduino ==
    /\ program = CrossPlatformFlowMonitor
    /\ ui_pc = "idle"
    /\ is_connected
    /\ is_running' = FALSE
    /\ open_handles' = open_handles \ {serial_connection}
    /\ serial_connection' = None
    /\ is_connected' = FALSE
    /\ user_disconnected' = TRUE
    /\ UNCHANGED <<program, portvars, exportvars, bufvars, healthvars, threadvars, uivars, ghostvars,
                   is_recording, start_time, thread_lock, now, after_queue,
                   pushed, lines_sent, opens, last_reconnect_attempt,
                   lost_signals, lost_pending, reopens>>

\* handle_connection_lost, run by the Tk loop for a root.after(0, ...) of an
\* ingestion thread: cleanup_connection and a warning dialog.
CP_HandleConnectionLost ==
    /\ program = CrossPlatformFlowMonitor
    /\ ui_pc = "idle"
    /\ after_queue > 0
    /\ after_queue' = after_queue - 1
    /\ open_handles' = open_handles \ {serial_connection}
    /\ serial_connection' = None
    /\ is_connected' = FALSE
    /\ UNCHANGED <<program, portvars, exportvars, bufvars, healthvars, threadvars, uivars, histvars,
                   ghostvars, is_recording, start_time, thread_lock, now,
                   pushed, lines_sent, opens, is_running,
                   last_reconnect_attempt>>

\* reconnect (the menu entry), up to its connect_arduino call: when connected,
\* disconnect_arduino and a sleep.
CP_Reconnect ==
    /\ program = CrossPlatformFlowMonitor
    /\ ui_pc = "idle"
    /\ ui_pc' = "reconnect"
    /\ IF is_connected
       THEN /\ is_running' = FALSE
            /\ open_handles' = open_handles \ {serial_connection}
            /\ serial_connection' = None
            /\ is_connected' = FALSE
            /\ user_disconnected' = TRUE
       ELSE UNCHANGED <<is_running, open_handles, serial_connection,
                        is_connected, user_disconnected>>
    /\ UNCHANGED <<program, portvars, exportvars, bufvars, healthvars, threadvars, ghostvars,
                   is_recording, start_time, thread_lock, now, after_queue,
                   pushed, lines_sent, opens, last_reconnect_attempt, ui_now,
                   snap_times, snap_flows, snap_volumes, data_status, animation,
                   lost_signals, lost_pending, reopens>>

\* on_closing: is_running = False, disconnect when connected, join, and the
\* Tk root is destroyed.
CP_OnClosing ==
    /\ program = CrossPlatformFlowMonitor
    /\ ui_pc = "idle"
    /\ ui_pc' = "closed"
    /\ animation' = FALSE
    /\ is_running' = FALSE
    /\ user_disconnected' = TRUE
    /\ IF is_connected
       THEN /\ open_handles' = open_handles \ {serial_connection}
            /\ serial_connection' = None
            /\ is_connected' = FALSE
       ELSE UNCHANGED <<open_handles, serial_connection, is_connected>>
    /\ UNCHANGED <<program, portvars, exportvars, bufvars, healthvars, threadvars, ghostvars,
                   is_recording, start_time, thread_lock, now, after_queue,
                   pushed, lines_sent, opens, last_reconnect_attempt, ui_now,
                   snap_times, snap_flows, snap_volumes, data_status,
                   lost_signals, lost_pending, reopens>>

\* --------------------------------------------------------- the export
\* A cell of a written line: a text, or a number n / 10^digits as the format
\* specification prints it.
Text(s) == [text |-> s]
Num(n, digits) == [num |-> n, digits |-> digits]

Pow10(d) == IF d = 3 THEN 1000 ELSE IF d = 4 THEN 10000 ELSE 100000

\* f"{x:.<d>f}": x rounded to d decimals, in units of 10^-d.
Format(x, d) == Num((2 * x * Pow10(d) + FP) \div (2 * FP), d)

\* The lines of a file made by write calls whose terminator is a newline
\* (one line per call), or the two characters backslash and n (one single
\* line holding every call's cells, the terminators among them).
RECURSIVE Flatten(_)
Flatten(chunks) ==
    IF chunks = <<>> THEN <<>>
    ELSE Head(chunks) \o <<Text("\\n")>> \o Flatten(Tail(chunks))

FileLines(chunks, newline) ==
    IF newline THEN chunks ELSE <<Flatten(chunks)>>

HeaderFM ==
    <<Text("Time(s)"), Text("FlowRate(L/min)"), Text("TotalVolume(L)"),
      Text("Status")>>
HeaderCP ==
    <<Text("Time(s)"), Text("FlowRate(L/min)"), Text("TotalVolume(L)")>>

\* save_data: the row of sample i, times relative to the first sample.
RowFM(i) ==
    <<Format(timestamps[i] - timestamps[1], 3), Format(flow_rates[i], 3),
      Format(total_volumes[i], 4),
      Text(IF i <= Len(status_history) THEN status_history[i]
           ELSE sensor_status)>>

\* export_data: the row of sample i.
RowCP(i) ==
    <<Format(timestamps[i], 3), Format(flow_rates[i], 4),
      Format(total_volumes[i], 5)>>

\* The outcomes of the file dialog: a file name, a cancel, or an exception
\* raised by the dialog call.
DialogOutcomes == {"file", "cancel", "raise"}

\* The emptiness test that only an empty buffer satisfies.
NothingToSave_EmptyOnly == Len(timestamps) = 0

\* save_data: if len(self.timestamps) <= 1
NothingToSave == Len(timestamps) <= 1

\* FlowMonitor.save_data (the Save button): the "No data" warning, else the
\* file dialog, the copy under the lock and the file writes; io_ok is whether
\* open / write succeed.
save_data(dialog, io_ok) ==
    /\ program = FlowMonitor
    /\ ui_pc = "idle"
    /\ thread_lock = None
    /\ exports < MaxExports
    /\ exports' = exports + 1
    /\ IF NothingToSave
       THEN /\ export_report' = "No Data"
            /\ UNCHANGED export_file
       ELSE IF dialog = "raise"
       THEN /\ export_report' = "raised"
            /\ UNCHANGED export_file
       ELSE IF dialog = "cancel"
       THEN /\ export_report' = "none"
            /\ UNCHANGED export_file
       ELSE IF io_ok
       THEN /\ export_report' = "Save Successful"
            /\ export_file' =
                  FileLines(<<HeaderFM>> \o
                            [i \in 1..Len(timestamps) |-> RowFM(i)], TRUE)
       ELSE /\ export_report' = "Save Failed"
            /\ UNCHANGED export_file
    /\ UNCHANGED <<program, portvars, bufvars, healthvars, connvars, threadvars, uivars,
                   histvars, ghostvars, is_recording, start_time, thread_lock,
                   now, after_queue, pushed, lines_sent>>

\* CrossPlatformFlowMonitor.export_data (the Export menu) up to the with
\* statement: the "No data" warning, else the file dialog; with a file name
\* it takes the lock and goes on to open the file.
export_data(dialog) ==
    /\ program = CrossPlatformFlowMonitor
    /\ ui_pc = "idle"
    /\ thread_lock = None
    /\ exports < MaxExports
    /\ IF Len(timestamps) = 0
       THEN /\ export_report' = "No Data"
            /\ exports' = exports + 1
            /\ UNCHANGED <<ui_pc, thread_lock>>
       ELSE IF dialog = "raise"
       THEN /\ export_report' = "Export Error"
            /\ exports' = exports + 1
            /\ UNCHANGED <<ui_pc, thread_lock>>
       ELSE IF dialog = "cancel"
       THEN /\ export_report' = "none"
            /\ exports' = exports + 1
            /\ UNCHANGED <<ui_pc, thread_lock>>
       ELSE /\ thread_lock' = UI
            /\ ui_pc' = "x_write"
            /\ UNCHANGED <<export_report, exports>>
    /\ UNCHANGED <<program, portvars, export_file, bufvars, healthvars, connvars,
                   threadvars, histvars, ghostvars, is_recording, start_time,
                   now, after_queue, pushed, lines_sent, ui_now, snap_times,
                   snap_flows, snap_volumes, data_status, animation>>

\* export_data inside "with self.thread_lock": open(filename, "w") and the
\* writes of the header and of one row per sample, then the lock is released
\* (also when open or a write raises) and the message box reports.
CP_ExportWrite(io_ok) ==
    /\ program = CrossPlatformFlowMonitor
    /\ ui_pc = "x_write"
    /\ thread_lock = UI
    /\ exports' = exports + 1
    /\ IF io_ok
       THEN /\ export_report' = "Export Complete"
            /\ export_file' =
                  FileLines(<<HeaderCP>> \o
                            [i \in 1..Len(timestamps) |-> RowCP(i)], FALSE)
       ELSE /\ export_report' = "Export Error"
            /\ UNCHANGED export_file
    /\ thread_lock' = None
    /\ ui_pc' = "idle"
    /\ UNCHANGED <<program, portvars, bufvars, healthvars, connvars, threadvars,
                   histvars, ghostvars, is_recording, start_time, now,
                   after_queue, pushed, lines_sent, ui_now, snap_times,
                   snap_flows, snap_volumes, data_status, animation>>


\* ------------------------------------------------ choice of the device
\* The descriptions of the model's ports, each with the keywords of the
\* selection routines that description.upper() contains.
Keywords ==
    ("Arduino Uno" :> {"ARDUINO", "UNO"})
    @@ ("USB-SERIAL CH340" :> {"USB", "CH340"})
    @@ ("USB Serial Device" :> {"USB"})
    @@ ("Bluetooth link" :> {"BLUETOOTH"})

PortDescriptions == DOMAIN Keywords

\* any(keyword in descriptor for keyword in keywords)
AnyKeyword(description, keywords) == Keywords[description] \cap keywords /= {}

\* get_available_ports: the type given to a port.
PortType(description) ==
    IF AnyKeyword(description, {"ARDUINO", "UNO", "NANO", "MEGA"})
    THEN "Arduino"
    ELSE IF AnyKeyword(description, {"CH340", "CH341", "FTDI", "CP210"})
    THEN "USB-Serial"
    ELSE IF AnyKeyword(description, {"USB"})
    THEN "USB Device"
    ELSE "Unknown"

Devices(ports) == {ports[i].device : i \in 1..Len(ports)}

\* The ports of a set in the order of their device names.
RECURSIVE ByDevice(_)
ByDevice(S) ==
    IF S = {} THEN <<>>
    ELSE LET first == CHOOSE p \in S : \A q \in S : p.device <= q.device
         IN <<first>> \o ByDevice(S \ {first})

\* get_available_ports: the ports with their types,
\* sorted(ports, key=lambda x: (x.type != "Arduino", x.device)).
get_available_ports ==
    LET typed == {[device |-> comports[i].device,
                   description |-> comports[i].description,
                   type |-> PortType(comports[i].description)] :
                  i \in 1..Len(comports)}
    IN ByDevice({p \in typed : p.type = "Arduino"})
       \o ByDevice({p \in typed : p.type /= "Arduino"})

\* arduino_ports = [p for p in ports if p.type == "Arduino"]
arduino_ports(ports) == SelectSeq(ports, LAMBDA p : p.type = "Arduino")

\* A device is plugged in and shows up in the enumeration.
PlugIn(device, description) ==
    /\ port_by = "none"
    /\ Len(comports) < MaxPorts
    /\ device \notin Devices(comports)
    /\ comports' = Append(comports, [device |-> device,
                                     description |-> description])
    /\ UNCHANGED <<program, exportvars, bufvars, healthvars, connvars,
                   threadvars, uivars, histvars, ghostvars, is_recording,
                   start_time, thread_lock, now, after_queue, pushed,
                   lines_sent, port, port_prompted, port_by>>

\* select_port_interactively (main() without a port argument): None when
\* there is no port; the only Arduino port when there is exactly one; else
\* the selection dialog, which returns the row the user confirms, or None
\* when the user cancels.
select_port_interactively(choice) ==
    /\ port_by = "none"
    /\ port_by' = "select_port_interactively"
    /\ LET ports == get_available_ports IN
       IF ports = <<>>
       THEN port' = None /\ port_prompted' = FALSE
       ELSE IF Len(arduino_ports(ports)) = 1
       THEN port' = arduino_ports(ports)[1].device /\ port_prompted' = FALSE
       ELSE /\ choice \in Devices(ports) \cup {None}
            /\ port' = choice
            /\ port_prompted' = TRUE
    /\ UNCHANGED <<program, exportvars, bufvars, healthvars, connvars,
                   threadvars, uivars, histvars, ghostvars, is_recording,
                   start_time, thread_lock, now, after_queue, pushed,
                   lines_sent, comports>>

\* The ports _find_arduino_port takes for an Arduino.
FindKeywords == {"ARDUINO", "CH340", "CH341", "USB"}

\* FlowMonitor(port=None): _connect_to_arduino calls _find_arduino_port, which
\* returns the first enumerated port with one of its keywords, else the first
\* enumerated port, else None.  Nobody is asked.
FM_FindArduinoPort ==
    /\ port_by = "none"
    /\ port_by' = "_find_arduino_port"
    /\ port_prompted' = FALSE
    /\ LET hits == SelectSeq(comports,
                     LAMBDA p : AnyKeyword(p.description, FindKeywords))
       IN port' = IF hits /= <<>> THEN hits[1].device
                  ELSE IF comports /= <<>> THEN comports[1].device
                  ELSE None
    /\ UNCHANGED <<program, exportvars, bufvars, healthvars, connvars,
                   threadvars, uivars, histvars, ghostvars, is_recording,
                   start_time, thread_lock, now, after_queue, pushed,
                   lines_sent, comports>>

\* connection_test_enhanced.main without a port argument: nothing when there
\* is no port; else select_port_interactive, which returns the only Arduino
\* port when there is exactly one and else asks for a number or 'q'.  (The
\* order of the list does not enter the value returned.)
select_port_interactive(choice) ==
    /\ port_by = "none"
    /\ port_by' = "select_port_interactive"
    /\ LET ports == get_available_ports IN
       IF ports = <<>>
       THEN port' = None /\ port_prompted' = FALSE
       ELSE IF Len(arduino_ports(ports)) = 1
       THEN port' = arduino_ports(ports)[1].device /\ port_prompted' = FALSE
       ELSE /\ choice \in Devices(ports) \cup {None}
            /\ port' = choice
            /\ port_prompted' = TRUE
    /\ UNCHANGED <<program, exportvars, bufvars, healthvars, connvars,
                   threadvars, uivars, histvars, ghostvars, is_recording,
                   start_time, thread_lock, now, after_queue, pushed,
                   lines_sent, comports>>

\* ------------------------------------------------- specifications
\* The buffer under concurrent push, snapshot, reset and pause; every step
\* inside the lock is a step of its own.
NextBuf ==
    \/ \E t \in Threads : ReadLoopTest(t)
    \/ \E t \in Threads : FM_ReadNothing(t)
    \/ \E t \in Threads : FM_ReadError(t)
    \/ \E t \in Threads : FM_ReadExcept(t)
    \/ \E t \in Threads, line \in BufLines :
          lines_sent < MaxLines /\ FM_ReadLine(t, line)
    \/ \E t \in Threads : FM_ParseValidate(t)
    \/ \E t \in Threads : FM_ParseHealth(t)
    \/ \E t \in Threads, line \in BufLines :
          lines_sent < MaxLines /\ CP_ReadLine(t, line)
    \/ \E t \in Threads : CP_ReadEmpty(t)
    \/ \E t \in Threads : CP_ParseValidate(t)
    \/ \E t \in Threads : ParseAcquire(t)
    \/ \E t \in Threads : ParseAppendTimestamp(t)
    \/ \E t \in Threads : ParseAppendFlow(t)
    \/ \E t \in Threads : ParseAppendVolume(t)
    \/ \E t \in Threads : ParseStats(t)
    \/ \E t \in Threads : ParseRelease(t)
    \/ AnimateBegin
    \/ AnimateAcquire
    \/ AnimateCopyTimes
    \/ AnimateCopyFlows
    \/ AnimateCopyVolumes
    \/ AnimateRelease
    \/ AnimateDraw
    \/ CP_AnimateDrawEmpty
    \/ FM_AnimateStatus
    \/ FM_HandleAutoReconnect
    \/ FM_ResetAcquire
    \/ FM_ResetBody
    \/ FM_ToggleRecording
    \/ \E ok \in BOOLEAN : CP_ConnectArduino(ok)

SpecBuf == Init /\ [][NextBuf]_vars

\* The connection handling: the read loops, the periodic tick with the
\* automatic reconnect, connect / disconnect / close, and time.
NextConn ==
    \/ \E t \in Threads : ReadLoopTest(t)
    \/ \E t \in Threads : FM_ReadNothing(t)
    \/ \E t \in Threads, line \in ConnLines :
          lines_sent < ConnMaxLines /\ FM_ReadLine(t, line)
    \/ \E t \in Threads : FM_ReadClosedHandle(t)
    \/ \E t \in Threads : FM_ReadError(t)
    \/ \E t \in Threads : FM_ReadExcept(t)
    \/ \E t \in Threads : FM_ParseDataLine(t)
    \/ \E t \in Threads : CP_ReadClosed(t)
    \/ \E t \in Threads, line \in ConnLines :
          lines_sent < ConnMaxLines /\ CP_ReadLine(t, line)
    \/ \E t \in Threads : CP_ReadEmpty(t)
    \/ \E t \in Threads : CP_ReadError(t)
    \/ \E t \in Threads : CP_ParseDataLine(t)
    \/ FM_Animate
    \/ FM_HandleAutoReconnect
    \/ FM_CloseHandle
    \/ FM_CloseFinally
    \/ \E ok \in BOOLEAN : FM_OpenSerial(ok)
    \/ \E ok \in BOOLEAN : FM_SettleAndConnect(ok)
    \/ FM_StartDataThread
    \/ FM_OnClose
    \/ Advance
    \/ \E ok \in BOOLEAN : CP_ConnectArduino(ok)
    \/ CP_DisconnectArduino
    \/ CP_HandleConnectionLost
    \/ CP_Reconnect
    \/ CP_OnClosing

SpecConn == Init /\ [][NextConn]_vars

\* Parsing and export: the device sends any of the model's lines, the user
\* pauses, resets and exports.
NextParse ==
    \/ \E t \in Threads : ReadLoopTest(t)
    \/ \E t \in Threads, line \in ParseLines :
          lines_sent < ParseMaxLines /\ FM_ReadLine(t, line)
    \/ \E t \in Threads : FM_ParseDataLine(t)
    \/ \E t \in Threads, line \in ParseLines :
          lines_sent < ParseMaxLines /\ CP_ReadLine(t, line)
    \/ \E t \in Threads : CP_ParseDataLine(t)
    \/ \E ok \in BOOLEAN : CP_ConnectArduino(ok)
    \/ FM_ToggleRecording
    \/ FM_ResetAcquire
    \/ FM_ResetBody
    \/ \E dialog \in DialogOutcomes, io_ok \in BOOLEAN : save_data(dialog, io_ok)
    \/ \E dialog \in DialogOutcomes : export_data(dialog)
    \/ \E io_ok \in BOOLEAN : CP_ExportWrite(io_ok)

SpecParse == Init /\ [][NextParse]_vars

\* FlowMonitor under every event that is not a push: transport errors, the
\* periodic tick with its automatic reconnect, the window close, time, and
\* the Reset and Save buttons.
NextLoss ==
    \/ \E t \in Threads : ReadLoopTest(t)
    \/ \E t \in Threads : FM_ReadNothing(t)
    \/ \E t \in Threads, line \in ConnLines :
          lines_sent < LossMaxLines /\ FM_ReadLine(t, line)
    \/ \E t \in Threads : FM_ReadClosedHandle(t)
    \/ \E t \in Threads : FM_ReadError(t)
    \/ \E t \in Threads : FM_ReadExcept(t)
    \/ \E t \in Threads : FM_ParseDataLine(t)
    \/ FM_Animate
    \/ FM_HandleAutoReconnect
    \/ FM_CloseHandle
    \/ FM_CloseFinally
    \/ \E ok \in BOOLEAN : FM_OpenSerial(ok)
    \/ \E ok \in BOOLEAN : FM_SettleAndConnect(ok)
    \/ FM_StartDataThread
    \/ FM_OnClose
    \/ Advance
    \/ FM_ResetAcquire
    \/ FM_ResetBody
    \/ \E dialog \in DialogOutcomes, io_ok \in BOOLEAN : save_data(dialog, io_ok)

SpecLoss == Init /\ [][NextLoss]_vars

\* FlowMonitor's parser on flow rates of every size: the device sends lines
\* with small, large and negative flow rates, the user pauses and resumes.
FlowLines ==
    {LineConnected, LineNegative, LineFlow20, LineFlow30, LineFlow50,
     LineFlow60}

NextFlow ==
    \/ \E t \in Threads : ReadLoopTest(t)
    \/ \E t \in Threads, line \in FlowLines :
          lines_sent < ParseMaxLines /\ FM_ReadLine(t, line)
    \/ \E t \in Threads : FM_ParseDataLine(t)
    \/ FM_ToggleRecording

SpecFlow == Init /\ [][NextFlow]_vars

\* Pause and resume in FlowMonitor with the clock running: the device sends
\* readings or stays silent, the user pauses and resumes, the tick computes
\* the status and reconnects.
PauseLines == {LineWaiting, LineConnected}

NextPause ==
    \/ \E t \in Threads : ReadLoopTest(t)
    \/ \E t \in Threads : FM_ReadNothing(t)
    \/ \E t \in Threads, line \in PauseLines :
          lines_sent < ConnMaxLines /\ FM_ReadLine(t, line)
    \/ \E t \in Threads : FM_ReadClosedHandle(t)
    \/ \E t \in Threads : FM_ReadExcept(t)
    \/ \E t \in Threads : FM_ParseDataLine(t)
    \/ FM_Animate
    \/ FM_HandleAutoReconnect
    \/ FM_CloseHandle
    \/ FM_CloseFinally
    \/ \E ok \in BOOLEAN : FM_OpenSerial(ok)
    \/ \E ok \in BOOLEAN : FM_SettleAndConnect(ok)
    \/ FM_StartDataThread
    \/ Advance
    \/ FM_ToggleRecording

SpecPause == Init /\ [][NextPause]_vars

\* The choice of the device when no port is named: devices are plugged in,
\* then one of the routines chooses.
NextPort ==
    \/ \E device \in 1..MaxPorts, description \in PortDescriptions :
          PlugIn(device, description)
    \/ \E choice \in (1..MaxPorts) \cup {None} : select_port_interactively(choice)
    \/ FM_FindArduinoPort
    \/ \E choice \in (1..MaxPorts) \cup {None} : select_port_interactive(choice)

SpecPort == Init /\ [][NextPort]_vars

\* ------------------------- SimpleFlowMonitor and MinimalFlowMonitor
\* The two small monitors: three deques, one serial thread, animate on the UI
\* thread, and no lock.
SimpleFlowMonitor == "SimpleFlowMonitor"
MinimalFlowMonitor == "MinimalFlowMonitor"
SimplePrograms == {SimpleFlowMonitor, MinimalFlowMonitor}

SimpleLines == {LineWaiting, LineConnected, LineBanner, LineShort}

\* __init__ and start(): connect_arduino succeeded, the serial thread is
\* started and the animation runs.
InitSimple ==
    /\ program \in SimplePrograms
    /\ timestamps = <<>>
    /\ flow_rates = <<>>
    /\ total_volumes = <<>>
    /\ status_history = <<>>
    /\ total_data_points = 0
    /\ max_flow_rate = 0
    /\ is_recording = TRUE
    /\ sensor_status = DEFAULT_SENSOR_STATUS
    /\ latest_flow_rate = 0
    /\ latest_total_volume = 0
    /\ start_time = None
    /\ thread_lock = None
    /\ serial_connection = 1
    /\ open_handles = {1}
    /\ opens = 1
    /\ is_connected = TRUE
    /\ is_running = TRUE
    /\ last_data_timestamp = None
    /\ last_reconnect_attempt = None
    /\ now = 1
    /\ data_thread = 1
    /\ nthreads = 1
    /\ th_pc = [t \in Threads |-> IF t = 1 THEN "while" ELSE "new"]
    /\ th_line = [t \in Threads |-> <<>>]
    /\ th_raw = [t \in Threads |-> <<>>]
    /\ th_errors = [t \in Threads |-> 0]
    /\ th_raised = [t \in Threads |-> 0]
    /\ ui_pc = "idle"
    /\ ui_now = None
    /\ snap_times = <<>>
    /\ snap_flows = <<>>
    /\ snap_volumes = <<>>
    /\ animation = TRUE
    /\ data_status = "Waiting..."
    /\ after_queue = 0
    /\ pushed = <<>>
    /\ lines_sent = 0
    /\ lost_signals = [t \in Threads |-> 0]
    /\ lost_pending = FALSE
    /\ reopens = 0
    /\ user_disconnected = FALSE
    /\ connected_at = 1
    /\ last_accept = None
    /\ device_failed = FALSE
    /\ parsed = <<>>
    /\ export_report = "none"
    /\ export_file = <<>>
    /\ exports = 0
    /\ comports = <<>>
    /\ port = None
    /\ port_prompted = FALSE
    /\ port_by = "none"

\* What no step of the two small monitors changes.
SM_Rest ==
    <<program, portvars, exportvars, healthvars, histvars, ghostvars,
      status_history, max_flow_rate, is_recording, thread_lock, now,
      after_queue, data_thread, nthreads, th_errors, th_raw, th_raised,
      ui_now, data_status, animation, serial_connection, opens, is_connected,
      last_reconnect_attempt>>

\* The filter of read_serial_data: non-empty, holds a comma, none of the
\* banner prefixes.
SM_IsDataLine(line) ==
    /\ Len(line) >= 2
    /\ ~StartsWith(line, SkipPrefixesCP)

\* parse_data_line reaches its appends: four fields and the conversions
\* succeed (SimpleFlowMonitor converts the pulse counts too).
SM_Accepts(parts) ==
    /\ Len(parts) >= 4
    /\ IsFloat(parts[1]) /\ IsFloat(parts[2]) /\ IsFloat(parts[3])
    /\ program = SimpleFlowMonitor =>
          /\ (Len(parts) > 4 => IsInt(parts[5]))
          /\ (Len(parts) > 5 => IsInt(parts[6]))

\* while self.running: readline().decode(errors='ignore').strip(); a data line
\* goes on to parse_data_line, anything else to sleep and the next pass.
SM_ReadLine(t, line) ==
    /\ program \in SimplePrograms
    /\ th_pc[t] = "while"
    /\ is_running
    /\ serial_connection \in open_handles
    /\ lines_sent' = lines_sent + 1
    /\ IF SM_IsDataLine(decode(line))
       THEN /\ th_pc' = [th_pc EXCEPT ![t] = "parse"]
            /\ th_line' = [th_line EXCEPT ![t] = decode(line)]
       ELSE UNCHANGED <<th_pc, th_line>>
    /\ UNCHANGED <<SM_Rest, timestamps, flow_rates, total_volumes,
                   total_data_points, start_time, pushed, ui_pc, snap_times,
                   snap_flows, snap_volumes, is_running, open_handles>>

\* The loop test fails (running is False), or readline raises on the closed
\* handle and the except block breaks: the thread ends.
SM_ReadEnd(t) ==
    /\ program \in SimplePrograms
    /\ th_pc[t] = "while"
    /\ ~is_running \/ serial_connection \notin open_handles
    /\ th_pc' = [th_pc EXCEPT ![t] = "dead"]
    /\ UNCHANGED <<SM_Rest, timestamps, flow_rates, total_volumes,
                   total_data_points, start_time, pushed, lines_sent, th_line,
                   ui_pc, snap_times, snap_flows, snap_volumes, is_running,
                   open_handles>>

\* parse_data_line up to the appends: split, convert, and in
\* SimpleFlowMonitor the start time of the first reading.
SM_ParseValidate(t) ==
    /\ program \in SimplePrograms
    /\ th_pc[t] = "parse"
    /\ IF SM_Accepts(th_line[t])
       THEN /\ th_pc' = [th_pc EXCEPT ![t] = "app_t"]
            /\ start_time' =
                  IF program = SimpleFlowMonitor /\ start_time = None
                  THEN ToSeconds(ToFloat(th_line[t][1]))
                  ELSE start_time
            /\ UNCHANGED th_line
       ELSE /\ th_pc' = [th_pc EXCEPT ![t] = "while"]
            /\ th_line' = [th_line EXCEPT ![t] = <<>>]
            /\ UNCHANGED start_time
    /\ UNCHANGED <<SM_Rest, timestamps, flow_rates, total_volumes,
                   total_data_points, pushed, lines_sent, ui_pc, snap_times,
                   snap_flows, snap_volumes, is_running, open_handles>>

\* The time parse_data_line stores: seconds since the first reading in
\* SimpleFlowMonitor, seconds in MinimalFlowMonitor.
SM_StoredTime(parts) ==
    IF program = SimpleFlowMonitor
    THEN ToSeconds(ToFloat(parts[1])) - start_time
    ELSE ToSeconds(ToFloat(parts[1]))

\* self.timestamps.append(...)
SM_AppendTimestamp(t) ==
    /\ program \in SimplePrograms
    /\ th_pc[t] = "app_t"
    /\ timestamps' = Append_deque(timestamps, SM_StoredTime(th_line[t]))
    /\ th_pc' = [th_pc EXCEPT ![t] = "app_f"]
    /\ UNCHANGED <<SM_Rest, flow_rates, total_volumes, total_data_points,
                   start_time, pushed, lines_sent, th_line, ui_pc, snap_times,
                   snap_flows, snap_volumes, is_running, open_handles>>

\* self.flow_rates.append(flow_rate)
SM_AppendFlowRate(t) ==
    /\ program \in SimplePrograms
    /\ th_pc[t] = "app_f"
    /\ flow_rates' = Append_deque(flow_rates, ToFloat(th_line[t][2]))
    /\ th_pc' = [th_pc EXCEPT ![t] = "app_v"]
    /\ UNCHANGED <<SM_Rest, timestamps, total_volumes, total_data_points,
                   start_time, pushed, lines_sent, th_line, ui_pc, snap_times,
                   snap_flows, snap_volumes, is_running, open_handles>>

\* self.total_volumes.append(total_volume); self.data_count += 1
SM_AppendVolume(t) ==
    /\ program \in SimplePrograms
    /\ th_pc[t] = "app_v"
    /\ total_volumes' = Append_deque(total_volumes, ToFloat(th_line[t][3]))
    /\ total_data_points' = total_data_points + 1
    /\ pushed' = Append(pushed,
                        [timestamp |-> SM_StoredTime(th_line[t]),
                         flow_rate |-> ToFloat(th_line[t][2]),
                         total_volume |-> ToFloat(th_line[t][3]),
                         status |-> Strip(th_line[t][4])])
    /\ th_pc' = [th_pc EXCEPT ![t] = "while"]
    /\ th_line' = [th_line EXCEPT ![t] = <<>>]
    /\ UNCHANGED <<SM_Rest, timestamps, flow_rates, start_time, lines_sent,
                   ui_pc, snap_times, snap_flows, snap_volumes, is_running,
                   open_handles>>

\* animate: if not self.timestamps: return; else the three copies follow
\* (AnimateCopyTimes, AnimateCopyFlows, AnimateCopyVolumes), with no lock.
SM_Animate ==
    /\ program \in SimplePrograms
    /\ ui_pc = "idle"
    /\ is_running
    /\ ui_pc' = IF timestamps = <<>> THEN "idle" ELSE "a_t"
    /\ UNCHANGED <<SM_Rest, timestamps, flow_rates, total_volumes,
                   total_data_points, start_time, pushed, lines_sent, th_pc,
                   th_line, snap_times, snap_flows, snap_volumes, is_running,
                   open_handles>>

\* line1.set_data / line2.set_data and the rescaling: the tick ends.
SM_AnimateDraw ==
    /\ program \in SimplePrograms
    /\ ui_pc = "a_release"
    /\ ui_pc' = "idle"
    /\ UNCHANGED <<SM_Rest, timestamps, flow_rates, total_volumes,
                   total_data_points, start_time, pushed, lines_sent, th_pc,
                   th_line, snap_times, snap_flows, snap_volumes, is_running,
                   open_handles>>

\* The window is closed: start() goes on to its cleanup.
SM_Cleanup ==
    /\ program \in SimplePrograms
    /\ ui_pc = "idle"
    /\ is_running
    /\ is_running' = FALSE
    /\ open_handles' = open_handles \ {serial_connection}
    /\ UNCHANGED <<SM_Rest, timestamps, flow_rates, total_volumes,
                   total_data_points, start_time, pushed, lines_sent, th_pc,
                   th_line, ui_pc, snap_times, snap_flows, snap_volumes>>

NextSimple ==
    \/ \E t \in Threads, line \in SimpleLines :
          lines_sent < SimpleMaxLines /\ SM_ReadLine(t, line)
    \/ \E t \in Threads : SM_ReadEnd(t)
    \/ \E t \in Threads : SM_ParseValidate(t)
    \/ \E t \in Threads : SM_AppendTimestamp(t)
    \/ \E t \in Threads : SM_AppendFlowRate(t)
    \/ \E t \in Threads : SM_AppendVolume(t)
    \/ SM_Animate
    \/ AnimateCopyTimes
    \/ AnimateCopyFlows
    \/ AnimateCopyVolumes
    \/ SM_AnimateDraw
    \/ SM_Cleanup

SpecSimple == InitSimple /\ [][NextSimple]_vars

\* ------------------------------------------------------------ claims
\* The samples in the buffer's history since construction or the last reset:
\* FlowMonitor starts it with the zero sample.
Hist == IF program = FlowMonitor THEN <<ZeroSample>> \o pushed ELSE pushed

LastN(seq, n) == SubSeq(seq, Len(seq) - n + 1, Len(seq))

\* No thread is between the first append of a push and its last.
NoPushInProgress == \A t \in Threads : th_pc[t] \notin {"app_f", "app_v", "stats"}

\* C1: FlowMonitor's buffer never holds more than MAX_POINTS readings, and once
\* MAX_POINTS or more readings were pushed since the last reset it holds
\* exactly the last MAX_POINTS of them, in arrival order.
C1_RollingBuffer ==
    program = FlowMonitor =>
        /\ Len(timestamps) <= MAX_POINTS
        /\ Len(flow_rates) <= MAX_POINTS
        /\ Len(total_volumes) <= MAX_POINTS
        /\ Len(status_history) <= MAX_POINTS
        /\ (NoPushInProgress /\ Len(pushed) >= MAX_POINTS) =>
              LET last == LastN(pushed, MAX_POINTS) IN
              /\ timestamps = [i \in 1..MAX_POINTS |-> last[i].timestamp]
              /\ flow_rates = [i \in 1..MAX_POINTS |-> last[i].flow_rate]
              /\ total_volumes = [i \in 1..MAX_POINTS |-> last[i].total_volume]
              /\ status_history = [i \in 1..MAX_POINTS |-> last[i].status]

\* C1 witness: more than MAX_POINTS readings pushed without a reset, the
\* oldest evicted, two different readings in the buffer.
C1_Witness ==
    /\ program = FlowMonitor
    /\ NoPushInProgress
    /\ Len(pushed) > MAX_POINTS
    /\ pushed[1].timestamp /= pushed[Len(pushed)].timestamp
    /\ timestamps[1] /= timestamps[MAX_POINTS]

\* animate holds its three copies (the end of its with block is next).
SnapshotTaken == ui_pc = "a_release"

\* C2: a snapshot of animate has three series of one length, at most
\* MAX_POINTS, and its i-th time, flow rate and volume are those of one
\* reading: the snapshot is the tail of the history of pushed readings.
C2_SnapshotConsistent ==
    SnapshotTaken =>
        LET n == Len(snap_times) IN
        /\ Len(snap_flows) = n
        /\ Len(snap_volumes) = n
        /\ n <= MAX_POINTS
        /\ n <= Len(Hist)
        /\ \A i \in 1..n :
              LET r == Hist[Len(Hist) - n + i] IN
              /\ snap_times[i] = r.timestamp
              /\ snap_flows[i] = r.flow_rate
              /\ snap_volumes[i] = r.total_volume

\* C2 witness: a snapshot holding a pushed reading is taken while an ingestion
\* thread waits at the lock with the next reading.
C2_Witness ==
    /\ SnapshotTaken
    /\ Len(pushed) >= 1
    /\ Len(snap_times) >= 2
    /\ \E t \in Threads : th_pc[t] = "acquire"

\* The program's own steps run when they can: the ingestion threads, the
\* periodic tick and what it starts, the Tk callback queue, and time.  The
\* user's actions (connect, disconnect, close) carry no fairness.
ThreadSteps ==
    \/ \E t \in Threads : ReadLoopTest(t)
    \/ \E t \in Threads : FM_ReadNothing(t)
    \/ \E t \in Threads : FM_ReadClosedHandle(t)
    \/ \E t \in Threads : FM_ReadExcept(t)
    \/ \E t \in Threads : FM_ParseDataLine(t)
    \/ \E t \in Threads : CP_ReadClosed(t)
    \/ \E t \in Threads : CP_ReadEmpty(t)
    \/ \E t \in Threads : CP_ParseDataLine(t)

TickSteps ==
    \/ FM_Animate
    \/ FM_HandleAutoReconnect
    \/ FM_CloseHandle
    \/ FM_CloseFinally
    \/ \E ok \in BOOLEAN : FM_OpenSerial(ok)
    \/ \E ok \in BOOLEAN : FM_SettleAndConnect(ok)
    \/ FM_StartDataThread
    \/ CP_HandleConnectionLost

FairSpecConn ==
    /\ SpecConn
    /\ WF_vars(ThreadSteps)
    /\ WF_vars(TickSteps)
    /\ WF_vars(Advance)

\* The tick's reconnect test is being decided in this step.
ReconnectTested == ui_pc = "a_reconnect" /\ ui_pc' /= "a_reconnect"

\* The status summary is being computed in this step.
StatusComputed == ui_pc = "idle" /\ ui_pc' = "a_reconnect"

SilentSinceConnected ==
    /\ connected_at /= None
    /\ last_accept = None \/ last_accept < connected_at

\* C4: in FlowMonitor a tick that finds the session Connected for 16 s or
\* more without any reading since (none at all included) enters
\* Reconnecting.
C4_ReconnectAfterSilence ==
    [][ (program = FlowMonitor /\ ReconnectTested /\ is_connected
         /\ SilentSinceConnected /\ ui_now - connected_at >= 16)
        => ui_pc' = "rc_close" ]_vars

\* C5: once an ingestion thread has stopped on transport errors (connection
\* lost), a reopen of the device is eventually attempted, unless the user
\* disconnects or closes the window first.
C5_LostLeadsToReopen == lost_pending ~> (~lost_pending \/ user_disconnected)

\* C6: in CrossPlatformFlowMonitor.read_serial_data a failing read adds one to
\* the count; the thread ends and signals connection lost exactly when the
\* count reaches 5 and goes on after 1 to 4; it signals at most once; and no
\* step of the thread opens or closes a handle.
C6_ErrorThreshold ==
    /\ [](program = CrossPlatformFlowMonitor =>
             \A t \in Threads :
                 /\ lost_signals[t] <= 1
                 /\ th_errors[t] <= max_consecutive_errors
                 /\ (lost_signals[t] = 1 =>
                        th_errors[t] = max_consecutive_errors /\ th_pc[t] = "dead"))
    /\ [][ program = CrossPlatformFlowMonitor =>
           \A t \in Threads :
               /\ (th_errors'[t] = th_errors[t] + 1) =>
                     /\ (lost_signals'[t] = lost_signals[t] + 1
                            <=> th_errors'[t] = max_consecutive_errors)
                     /\ (after_queue' = after_queue + 1
                            <=> th_errors'[t] = max_consecutive_errors)
                     /\ (th_pc'[t] = "dead"
                            <=> th_errors'[t] = max_consecutive_errors)
                     /\ (th_errors'[t] < max_consecutive_errors
                            => th_pc'[t] = "while")
               /\ (lost_signals'[t] /= lost_signals[t])
                     => th_errors'[t] = th_errors[t] + 1
               /\ (th_pc[t] /= "new" /\ th_pc'[t] /= th_pc[t]) =>
                     UNCHANGED <<serial_connection, open_handles, opens>>
         ]_vars

\* C6 witness: a thread that went on after four failing reads has ended at the
\* fifth, with its one signal waiting in the Tk queue.
C6_Witness ==
    /\ program = CrossPlatformFlowMonitor
    /\ \E t \in Threads :
          /\ th_errors[t] = max_consecutive_errors
          /\ lost_signals[t] = 1
          /\ th_pc[t] = "dead"
    /\ after_queue = 1

\* C7: in FlowMonitor, when an automatic reconnect whose reopen succeeded
\* has run to its end (device healthy), the session is Connected on an open
\* handle and an ingestion thread is alive.
C7_ReconnectedAndIngesting ==
    [][ (program = FlowMonitor /\ ui_pc = "rc_start" /\ ui_pc' = "idle"
         /\ ~device_failed')
        => (is_connected /\ serial_connection \in open_handles
            /\ is_alive(data_thread))' ]_vars

\* C8: in CrossPlatformFlowMonitor a connect request that opens the handle
\* (after a disconnect included) yields Connected with a running ingestion
\* task: a live thread whose loop condition holds.
C8_ConnectStartsIngestion ==
    [][ (program = CrossPlatformFlowMonitor /\ ~is_connected /\ is_connected')
        => (is_running /\ is_alive(data_thread))' ]_vars

\* C9: after an explicit disconnect (disconnect_arduino, on_closing, the
\* window close of FlowMonitor) and until a new connect request the session is
\* Disconnected and no handle is open (so nothing has reopened the device).
C9_DisconnectIsFinal ==
    user_disconnected =>
        /\ ~is_connected
        /\ serial_connection = None
        /\ open_handles = {}

\* C9 witness: a disconnect issued after a device was opened and while an
\* ingestion thread is still inside its loop.
C9_Witness ==
    /\ user_disconnected
    /\ opens >= 1
    /\ \E t \in Threads : th_pc[t] \in {"try", "parse"}

\* C10: at most one ingestion thread is alive, and no thread is created while
\* the latest one is alive.
C10_OneIngestionThread ==
    /\ [](Cardinality(Alive) <= 1)
    /\ [][ is_alive(data_thread) => nthreads' = nthreads ]_vars

\* C10 witness: FlowMonitor has reconnected while its first thread was alive:
\* the start was a no-op and that thread is still the only one.
C10_Witness ==
    /\ program = FlowMonitor
    /\ ui_pc = "idle"
    /\ connected_at /= None /\ connected_at > 1
    /\ nthreads = 1
    /\ is_alive(data_thread)

C12_FailedReopenDisconnects ==
    [][ program = FlowMonitor =>
        /\ (ui_pc \in {"rc_open", "rc_settle"} /\ ui_pc' = "idle") =>
              (~is_connected' /\ open_handles' = {})
        /\ (ReconnectTested /\ ~is_connected) => ui_pc' = "idle"
      ]_vars

\* The session fields a display-only status must leave alone.
SessionAndBuffer ==
    <<serial_connection, open_handles, opens, is_connected, is_running,
      threadvars, bufvars>>

\* C13: in FlowMonitor the step that computes the status Stale, and the rest
\* of a tick that shows Stale with at most 15 s of silence, leave the handle,
\* is_connected, the ingestion thread and the buffer unchanged; and a line
\* parsed while Stale is on display is accepted as usual.
C13_StaleIsDisplayOnly ==
    [][ program = FlowMonitor =>
        /\ (StatusComputed /\ data_status' = "Stale") =>
              UNCHANGED SessionAndBuffer
        /\ (ReconnectTested /\ data_status = "Stale"
            /\ last_data_timestamp /= None
            /\ ui_now - last_data_timestamp <= RECONNECT_AFTER_SECONDS) =>
              (ui_pc' = "idle" /\ UNCHANGED SessionAndBuffer)
        /\ \A t \in Threads :
              (data_status = "Stale" /\ th_pc[t] = "parse"
               /\ th_pc'[t] = "while" /\ AcceptsFM(th_line[t])) =>
                  /\ last_data_timestamp' = now
                  /\ is_recording => Len(pushed') = Len(pushed) + 1
      ]_vars

\* C13 witness: Stale is on display, the session is still Connected, and a
\* reading has been accepted after the tick that showed it.
C13_Witness ==
    /\ program = FlowMonitor
    /\ data_status = "Stale"
    /\ is_connected
    /\ reopens = 0
    /\ last_data_timestamp /= None
    /\ last_data_timestamp > ui_now
    /\ Len(pushed) >= 2

\* ------------------------------------------- claims on parsing and export
\* The lines the parser has to reject: fewer than 4 fields, a non-numeric
\* field 0, 1 or 2, a malformed integer in field 4 or 5, a negative field 1.
InRejectClass(parts) ==
    \/ Len(parts) < 4
    \/ ~IsFloat(parts[1]) \/ ~IsFloat(parts[2]) \/ ~IsFloat(parts[3])
    \/ (Len(parts) > 4 /\ ~IsInt(parts[5]))
    \/ (Len(parts) > 5 /\ ~IsInt(parts[6]))
    \/ ToFloat(parts[2]) < 0

\* The lines the read loop has to drop, or the parser to reject.
MustReject(line) ==
    \/ Len(line) < 2
    \/ line[1] \in {"===", "Time", "CSV"}
    \/ InRejectClass(line)

\* The lines the parser has to accept.
InAcceptClass(parts) ==
    /\ Len(parts) \in 4..6
    /\ IsFloat(parts[1]) /\ IsFloat(parts[2]) /\ IsFloat(parts[3])
    /\ ToFloat(parts[2]) >= 0
    /\ (Len(parts) > 4 => IsInt(parts[5]))
    /\ (Len(parts) > 5 => IsInt(parts[6]))

\* The entry the step has added to the log of lines.
LineLogged == Len(parsed') = Len(parsed) + 1
Logged == parsed'[Len(parsed')]

\* Thread t ends its parse of a line in this step.
ParseEnds(t) == th_pc[t] = "parse" /\ th_pc'[t] /= "parse"

\* C14: every line of the reject class that reaches FlowMonitor's
\* _parse_data_line ends as a rejection, never as an exception leaving the
\* method, and the thread goes back to the head of its loop.
C14_RejectNeverRaises ==
    /\ [](program = FlowMonitor =>
            \A i \in 1..Len(parsed) :
                (parsed[i].outcome /= "skipped" /\ InRejectClass(parsed[i].line))
                    => parsed[i].outcome = "rejected")
    /\ [][ program = FlowMonitor =>
           \A t \in Threads :
               (ParseEnds(t) /\ InRejectClass(th_line[t])) =>
                   /\ th_pc'[t] = "while"
                   /\ LineLogged /\ Logged.outcome = "rejected"
         ]_vars

\* C14 witness: a line with a malformed pulse count was rejected and the loop
\* went on to accept the next line.
C14_Witness ==
    /\ program = FlowMonitor
    /\ Len(parsed) = 2
    /\ parsed[1].line = LineBadPulse /\ parsed[1].outcome = "rejected"
    /\ parsed[2].outcome = "accepted"

\* C15: in FlowMonitor the step that disposes of a line that must be rejected
\* (dropped by the read loop or rejected by the parser) leaves the buffer, the
\* statistics, the last-reading timestamp, the sensor status and the latest
\* values as they were.
C15_RejectedLineNoEffect ==
    [][ (program = FlowMonitor /\ LineLogged /\ MustReject(Logged.line))
        => UNCHANGED <<bufvars, healthvars, pushed>> ]_vars

\* C15 witness: "abc,1.0,0.0,OK" was rejected after an accepted reading, which
\* is still the last entry of the buffer.
C15_Witness ==
    /\ program = FlowMonitor
    /\ Len(parsed) = 2
    /\ parsed[1].line = LineConnected /\ parsed[1].outcome = "accepted"
    /\ parsed[2].line = LineBadTimestamp /\ parsed[2].outcome = "rejected"
    /\ Len(timestamps) = 2
    /\ latest_flow_rate = 15000

\* str.strip() of the status fields, as the claim expects it.
Trimmed(s) == IF s = " OK " THEN "OK" ELSE IF s = " " THEN "" ELSE s

\* The last element of a series.
Last(seq) == seq[Len(seq)]

C17_NegativeFlowRejectedCP ==
    [][ program = CrossPlatformFlowMonitor =>
        \A t \in Threads :
            (ParseEnds(t) /\ th_line[t] = LineNegative) =>
                /\ LineLogged /\ Logged.outcome = "rejected"
                /\ UNCHANGED <<bufvars, pushed>>
      ]_vars

\* C18: a FlowMonitor that was fed "1000,0.0,0.0,WAITING" and
\* "2000,1.5,0.0005,CONNECTED,3,3" from construction, both recorded, has a
\* buffer of exactly 2 readings whose second entry has flow rate 1.5.
C18_ScenarioA ==
    (/\ program = FlowMonitor
     /\ Len(parsed) = 2
     /\ parsed[1].line = LineWaiting
     /\ parsed[2].line = LineConnected
     /\ total_data_points = 2)
    => (/\ Len(timestamps) = 2
        /\ Len(flow_rates) = 2
        /\ flow_rates[2] = 15000)

\* The accepted readings the buffer holds.
AcceptedInBuffer == IF Len(pushed) <= MAX_POINTS THEN Len(pushed) ELSE MAX_POINTS

\* An export request is served in this step.
ExportRuns == exports' = exports + 1

\* C19: an export on a buffer without accepted reading reports "No Data" and
\* writes no file; an export on a buffer with an accepted reading never
\* reports "No Data".
C19_NothingToExport ==
    [][ ExportRuns =>
        /\ AcceptedInBuffer = 0 =>
              (export_report' = "No Data" /\ export_file' = export_file)
        /\ AcceptedInBuffer > 0 => export_report' /= "No Data"
      ]_vars

\* C19 witness: FlowMonitor, after a rejected line and with only the zero
\* sample in the buffer, has answered an export with "No Data".
C19_Witness ==
    /\ program = FlowMonitor
    /\ exports = 1
    /\ export_report = "No Data"
    /\ export_file = <<>>
    /\ Len(parsed) >= 1
    /\ Len(timestamps) = 1

\* C20: a successful export has written the header line and then one line
\* per accepted reading of the buffer, each with four cells (relative time,
\* flow rate, volume, status).
C20_ExportRows ==
    [][ (ExportRuns
         /\ export_report' \in {"Save Successful", "Export Complete"})
        => /\ Len(export_file') = 1 + AcceptedInBuffer
           /\ Len(export_file'[1]) \in {3, 4}
           /\ \A i \in 2..Len(export_file') : Len(export_file'[i]) = 4
      ]_vars

\* The four series of the rolling buffer.
Series == <<timestamps, flow_rates, total_volumes, status_history>>

\* An accepted reading is pushed in this step.
PushStep ==
    \E t \in Threads :
        /\ th_pc[t] = "parse"
        /\ th_pc'[t] /= "parse"
        /\ AcceptsFM(th_line[t])
        /\ is_recording

\* The Reset button's body runs in this step.
ResetStep == ui_pc = "reset" /\ ui_pc' = "idle"

\* C21: in FlowMonitor the buffer content changes only in the step that
\* pushes an accepted reading or in the step of an explicit reset; every
\* other step (transport error, stale detection, automatic reconnect whether
\* it succeeds or fails, close, export whatever its outcome) leaves the four
\* series, the point count and the maximum as they were.
C21_OnlyPushOrResetChangesBuffer ==
    [][ (program = FlowMonitor /\ ~PushStep /\ ~ResetStep)
        => UNCHANGED <<Series, total_data_points, max_flow_rate>>
      ]_vars

\* C21 witness: a FlowMonitor whose buffer holds an accepted reading has gone
\* through a read error on the device, an automatic reopen and a failed save,
\* and the reading is still in the buffer.
C21_Witness ==
    /\ program = FlowMonitor
    /\ Len(pushed) = 1
    /\ Len(timestamps) = 2
    /\ flow_rates[2] = pushed[1].flow_rate
    /\ device_failed
    /\ reopens > 0
    /\ export_report = "Save Failed"


\* The UI thread opens or writes the export file in this step.
FileIOStep ==
    /\ ExportRuns
    /\ export_report' \in {"Save Successful", "Save Failed",
                           "Export Complete", "Export Error"}
    /\ ui_pc = "x_write" \/ program = FlowMonitor

\* Thread t reads from the device in this step.
SerialIOStep(t) == th_pc[t] = "read" /\ th_pc'[t] /= "read"

\* The UI thread hands data to the chart or requests a redraw in this step.
RedrawStep == ui_pc \in {"a_draw", "a_draw_empty"} /\ ui_pc' /= ui_pc

\* C22: no step that does file I/O, serial I/O or a chart redraw request is
\* taken by a thread that holds thread_lock, in either program.
C22_NoIOUnderLock ==
    [][ /\ (FileIOStep \/ RedrawStep) => thread_lock /= UI
        /\ \A t \in Threads : SerialIOStep(t) => thread_lock /= t
      ]_vars


\* The session health fields: last-reading timestamp, connected flag, sensor
\* status.
Health == <<last_data_timestamp, is_connected, sensor_status>>

\* C23: in FlowMonitor every step that writes the buffer or a session health
\* field is taken by a thread that holds thread_lock.
C23_WritesUnderLock ==
    [][ (program = FlowMonitor /\ (Series' /= Series \/ Health' /= Health))
        => thread_lock /= None
      ]_vars


\* The UI thread is inside the periodic animate callback.
InTick == ui_pc /= "idle"

\* The settle delay is waited and the input flushed in this step.
SettleWaited == ui_pc = "rc_settle" /\ ui_pc' /= "rc_settle"

\* C24: in FlowMonitor no step of the periodic animate callback opens the
\* device or waits the settle delay on the UI thread.
C24_TickDoesNoSerialIO ==
    [][ (program = FlowMonitor /\ InTick)
        => (opens' = opens /\ ~SettleWaited)
      ]_vars


\* C25: once the stop flag is set by a disconnect request (disconnect_arduino,
\* on_closing, the window close of FlowMonitor), every ingestion thread
\* eventually terminates.
C25_ThreadStopsAfterDisconnect == ~is_running ~> (Alive = {})

\* C25 witness: the stop flag was set by a disconnect while an ingestion
\* thread was inside its loop body.
C25_Witness ==
    /\ ~is_running
    /\ user_disconnected
    /\ \E t \in Threads : th_pc[t] \in {"try", "parse", "except"}


\* C26: at most one device handle is open at any time; no step taken while
\* the session is Connected opens a handle; and a handle is opened only when
\* no handle is open (the previous one has been closed).
C26_OneConnection ==
    /\ [](Cardinality(open_handles) <= 1)
    /\ [][ is_connected => opens' = opens ]_vars
    /\ [][ opens' /= opens => open_handles = {} ]_vars

\* C26 witness: a second handle has been opened after the first was closed,
\* and it is the only open one.
C26_Witness ==
    /\ opens >= 2
    /\ open_handles = {opens}
    /\ is_connected


\* C27: whenever the session is not connected no device handle is open.
C27_HandleReleasedWhenDisconnected == ~is_connected => open_handles = {}


\* C28: the chart is handed data only from a non-empty snapshot, and the time
\* series it is handed starts at 0 with every value the sample's time minus
\* the time of the snapshot's first sample, in both programs.
C28_ChartTimesNormalized ==
    ui_pc = "a_draw" =>
        /\ snap_times /= <<>>
        /\ Len(ChartTimes) = Len(snap_times)
        /\ ChartTimes[1] = 0
        /\ \A i \in 1..Len(snap_times) :
              ChartTimes[i] = snap_times[i] - snap_times[1]


\* C29: a received line that holds undecodable bytes ends as a rejection when
\* it reaches the parser: the buffer and the statistics stay as they are, and
\* the thread goes back to the head of its loop.
C29_BadBytesRejected ==
    [][ \A t \in Threads :
          (ParseEnds(t) /\ HasBadBytes(th_raw[t])) =>
              /\ LineLogged /\ Logged.outcome = "rejected"
              /\ UNCHANGED <<bufvars, pushed>>
              /\ th_pc'[t] = "while"
      ]_vars


\* C30: in FlowMonitor every parsed line whose fields convert and whose flow
\* rate is not negative is accepted, and it is flagged as implausibly high
\* exactly when its flow rate exceeds FLOW_MAX_REASONABLE.
C30_FlaggedAboveConfiguredMax ==
    program = FlowMonitor =>
        \A i \in 1..Len(parsed) :
            LET e == parsed[i] IN
            (e.outcome /= "skipped" /\ Len(e.line) >= 4 /\ ConversionsOk(e.line)
             /\ ToFloat(e.line[2]) >= 0)
            => /\ e.outcome = "accepted"
               /\ e.warned <=> (ToFloat(e.line[2]) > FLOW_MAX_REASONABLE)


\* The enumerated ports that match the expected-hardware patterns of the
\* routine that chose: the Arduino type for the two interactive routines, the
\* keywords of _find_arduino_port for it.
Matching ==
    IF port_by = "_find_arduino_port"
    THEN SelectSeq(comports, LAMBDA p : AnyKeyword(p.description, FindKeywords))
    ELSE SelectSeq(comports, LAMBDA p : PortType(p.description) = "Arduino")

\* C31: when a routine has chosen without an explicit device, a device chosen
\* without asking the user is the only matching port; with no or with several
\* matching ports no device is chosen without asking.
C31_AutoSelectOnlyUniqueMatch ==
    (port_by /= "none" /\ port /= None /\ ~port_prompted)
    => (Len(Matching) = 1 /\ port = Matching[1].device)


\* The buffer, the statistics and the latest values of a FlowMonitor that was
\* just constructed.
Fresh ==
    /\ timestamps = <<0>>
    /\ flow_rates = <<0>>
    /\ total_volumes = <<0>>
    /\ status_history = <<DEFAULT_SENSOR_STATUS>>
    /\ total_data_points = 0
    /\ max_flow_rate = 0
    /\ latest_flow_rate = 0
    /\ latest_total_volume = 0
    /\ sensor_status = DEFAULT_SENSOR_STATUS

\* A thread is inside the locked block of a push.
PushInside(t) ==
    th_pc[t] \in {"health", "app_t", "app_f", "app_v", "stats", "release"}

\* The readings the buffer has to hold: the last MAX_POINTS of the zero
\* sample and the readings pushed since construction or the last reset.
Expected ==
    IF Len(Hist) <= MAX_POINTS THEN Hist ELSE LastN(Hist, MAX_POINTS)

\* C32: the step of a reset in FlowMonitor runs while no push is inside its
\* locked block and leaves the buffer, the statistics and the latest values
\* as those of a fresh monitor (a reset of a fresh monitor included); and
\* whenever the lock is free the buffer holds whole readings only, those
\* pushed since the reset.
C32_ResetIsAtomicAndFresh ==
    /\ [][ (program = FlowMonitor /\ ResetStep) =>
             /\ \A t \in Threads : ~PushInside(t)
             /\ Fresh'
             /\ pushed' = <<>>
         ]_vars
    /\ []((program = FlowMonitor /\ thread_lock = None) =>
             /\ Len(timestamps) = Len(Expected)
             /\ \A i \in 1..Len(Expected) :
                   /\ timestamps[i] = Expected[i].timestamp
                   /\ flow_rates[i] = Expected[i].flow_rate
                   /\ total_volumes[i] = Expected[i].total_volume
                   /\ status_history[i] = Expected[i].status
             /\ Len(flow_rates) = Len(Expected)
             /\ Len(total_volumes) = Len(Expected)
             /\ Len(status_history) = Len(Expected))

\* C32 witness: the reset holds the lock, readings are in the buffer, and an
\* ingestion thread waits at the lock with the next reading.
C32_Witness ==
    /\ program = FlowMonitor
    /\ ui_pc = "reset"
    /\ thread_lock = UI
    /\ Len(pushed) >= 2
    /\ max_flow_rate > 0
    /\ \E t \in Threads : th_pc[t] = "acquire"


\* C33: in FlowMonitor a thread ends its read loop because of a transport
\* error only when max_consecutive_errors reads in a row have raised; after
\* fewer the thread stays alive and the session stays connected.
C33_ThreadEndsAfterFiveErrors ==
    [][ \A t \in Threads :
          (program = FlowMonitor /\ th_pc[t] = "except"
             /\ th_raised[t] < max_consecutive_errors
             /\ th_pc'[t] /= th_pc[t]) =>
              (th_pc'[t] /= "dead" /\ is_connected' = is_connected)
      ]_vars

\* C34: in SimpleFlowMonitor and MinimalFlowMonitor the three lists one
\* animate call has copied have one length, and their i-th elements are the
\* time, flow rate and volume of one reading.
C34_SimpleSnapshotWhole ==
    (program \in SimplePrograms /\ SnapshotTaken) =>
        LET n == Len(snap_times) IN
        /\ Len(snap_flows) = n
        /\ Len(snap_volumes) = n
        /\ \A i \in 1..n :
              \E k \in 1..Len(pushed) :
                 /\ snap_times[i] = pushed[k].timestamp
                 /\ snap_flows[i] = pushed[k].flow_rate
                 /\ snap_volumes[i] = pushed[k].total_volume

\* Thread t's readline() returns without raising in this step: a line or a
\* timed-out empty read.
ReadReturns(t) ==
    /\ th_pc[t] = "try"
    /\ th_pc'[t] \in {"while", "parse"}
    /\ th_errors'[t] /= th_errors[t] + 1

\* C35: in CrossPlatformFlowMonitor every read that returns without raising,
\* an empty timed-out read included, leaves the thread's error count at zero.
C35_EveryGoodReadResetsCount ==
    [][ \A t \in Threads :
          (program = CrossPlatformFlowMonitor /\ ReadReturns(t))
              => th_errors'[t] = 0
      ]_vars

\* C36: in FlowMonitor an accepted reading that arrives while recording is
\* paused leaves the buffer, total_data_points and max_flow_rate as they were
\* and sets the last-reading time, the sensor status and the latest flow and
\* volume; so a tick at most 5 s after an accepted reading never shows Stale
\* and one at most 15 s after it never starts a reconnect, paused or not; and
\* an accepted reading that arrives while recording is on is pushed.
C36_PausedKeepsHealth ==
    [][ program = FlowMonitor =>
        /\ \A t \in Threads :
              (ParseEnds(t) /\ AcceptsFM(th_line[t])) =>
                 LET r == PushReading(t) IN
                 /\ last_data_timestamp' = now
                 /\ sensor_status' = r.status
                 /\ latest_flow_rate' = r.flow_rate
                 /\ latest_total_volume' = r.total_volume
                 /\ IF is_recording
                    THEN /\ pushed' = Append(pushed, r)
                         /\ total_data_points' = total_data_points + 1
                         /\ timestamps'[Len(timestamps')] = r.timestamp
                         /\ flow_rates'[Len(flow_rates')] = r.flow_rate
                    ELSE UNCHANGED <<bufvars, pushed>>
        /\ (StatusComputed /\ last_accept /= None
              /\ now - last_accept <= DATA_TIMEOUT_SECONDS) =>
                 data_status' /= "Stale"
        /\ (ReconnectTested /\ last_accept /= None
              /\ ui_now - last_accept <= RECONNECT_AFTER_SECONDS) =>
                 ui_pc' /= "rc_close"
      ]_vars

\* C36 witness: recording is paused, a reading with flow was accepted while it
\* was (nothing was pushed), and a later tick showed Receiving.
C36_Witness ==
    /\ program = FlowMonitor
    /\ ~is_recording
    /\ pushed = <<>>
    /\ max_flow_rate = 0
    /\ latest_flow_rate = ToFloat("1.5")
    /\ last_accept /= None
    /\ ui_now /= None /\ ui_now > last_accept
    /\ data_status = "Receiving"

\* C37: in FlowMonitor, with the session connected and no reading accepted
\* since the last one (reset or not), a tick more than 5 s after the last
\* accepted reading shows Stale, and one more than 15 s after it, with no
\* reconnect attempted in the last 5 s, starts a reconnect.
C37_ResetKeepsSupervision ==
    [][ (program = FlowMonitor /\ is_connected /\ last_accept /= None
           /\ connected_at <= last_accept) =>
        /\ (StatusComputed /\ now - last_accept > DATA_TIMEOUT_SECONDS) =>
              data_status' = "Stale"
        /\ (ReconnectTested /\ ui_now - last_accept > RECONNECT_AFTER_SECONDS
              /\ BackoffOver(ui_now)) =>
              ui_pc' = "rc_close"
      ]_vars

Min(a, b) == IF a <= b THEN a ELSE b

\* C38: in FlowMonitor, whenever the lock is free the four series have one
\* length L, L is at least 1, and L = min(MAX_POINTS, total_data_points + 1).
C38_SeriesLength ==
    (program = FlowMonitor /\ thread_lock = None) =>
        LET L == Len(timestamps) IN
        /\ Len(flow_rates) = L
        /\ Len(total_volumes) = L
        /\ Len(status_history) = L
        /\ L >= 1
        /\ L = Min(MAX_POINTS, total_data_points + 1)

\* C38 witness: the lock is free, the readings pushed are as many as the
\* buffer holds or more, a line was sent that was not pushed, and recording
\* is paused.
C38_Witness ==
    /\ program = FlowMonitor
    /\ thread_lock = None
    /\ total_data_points >= MAX_POINTS
    /\ Len(timestamps) = MAX_POINTS
    /\ lines_sent > total_data_points
    /\ ~is_recording

====
